---- MODULE Spec2Model ----
(***************************************************************************)
(* Model of the automerge document (automerge/src/automerge.rs): the       *)
(* change application pipeline, the history / dependency graph and the     *)
(* history queries, together with the map reads that go through the prop   *)
(* query (automerge/src/query.rs).                                         *)
(*                                                                         *)
(* Two documents exist.  Each one makes local changes (set on a key of the *)
(* root map), is given batches of changes made anywhere (apply_changes,    *)
(* load_incremental) and merges the other one.  Positions in history are   *)
(* 0-based as in the source (history_index, states, Op.change); a TLA+     *)
(* sequence is 1-based, so history.get(i) is history[i + 1].               *)
(***************************************************************************)
EXTENDS Integers, Sequences, FiniteSets, TLC

\* ------------------------------------------------------------------ bounds
MaxChanges == 3     \* distinct changes ever made
MaxBatch == 2       \* changes in one apply_changes call
MaxQueue == 2       \* changes waiting in one document's queue
MaxHaveDeps == 2    \* hashes in the argument of a history query
MaxSyncChanges == 5 \* changes the writer of SpecSync makes
MaxStrLen == 4      \* characters of a string given to import
MaxOpsChanges == 4  \* changes the documents of SpecOps make
MaxListChanges == 5 \* changes the document of SpecList makes
MaxIndex == 3       \* greatest index given to insert, del and splice
MaxLists == 2       \* lists the document of SpecList makes
MaxTreeChanges == 5 \* changes the document of SpecTree makes
MaxTreeIndex == 2   \* greatest index given to the calls of SpecTree

Docs == {1, 2}
ActorIds == {1, 2}  \* actor bytes, ordered as the bytes are
PropNames == {1}    \* map keys, ordered as the strings are
Vals == {1}         \* scalar values a local set writes
OpProps == {1, 2}   \* map keys the reads are made at
OpVals == {1, 2}    \* scalar values the writer of SpecFork sets

VARIABLES
    doc,      \* doc[d]: the Automerge struct of document d
    world,    \* every change made so far; a change's hash is its digest
    last,     \* the last call made on a document and what it returned
    authors,  \* the documents that have committed a change of their own
    disk      \* disk[d]: the bytes written for document d since its last save()

vars == <<doc, world, last, authors, disk>>

\* ----------------------------------------------------------------- helpers
NoIdx == 0 - 1      \* Option<usize>::None

Range(s) == {s[i] : i \in 1..Len(s)}

Max(a, b) == IF a >= b THEN a ELSE b

Contains(s, x) == \E i \in 1..Len(s) : s[i] = x

RECURSIVE SortSet(_)
SortSet(S) ==
    IF S = {} THEN <<>>
    ELSE LET m == CHOOSE x \in S : \A y \in S : x <= y
         IN <<m>> \o SortSet(S \ {m})

InsertAt(s, i, x) == SubSeq(s, 1, i - 1) \o <<x>> \o SubSeq(s, i, Len(s))

\* Vec::swap_remove(index), index 1-based here: the last element takes the place
\* of the removed one.
swap_remove(s, i) ==
    IF i = Len(s) THEN SubSeq(s, 1, Len(s) - 1)
    ELSE [j \in 1..(Len(s) - 1) |-> IF j = i THEN s[Len(s)] ELSE s[j]]

SeqsUpTo(S, n) == UNION {[1..k -> S] : k \in 0..n}

\* The digest of the n-th change made.  A digest is injective and its order has
\* nothing to do with the order of creation: neighbours are swapped.
HashAt(n) == IF n % 2 = 1 THEN n + 1 ELSE n - 1

\* ------------------------------------------------------- interned caches
\* IndexedCache::lookup: the 0-based index of v, or None.
lookup(c, v) ==
    IF \E i \in 1..Len(c) : c[i] = v
    THEN (CHOOSE i \in 1..Len(c) : c[i] = v) - 1
    ELSE NoIdx

\* IndexedCache::cache: the cache after interning v.
cache(c, v) == IF lookup(c, v) # NoIdx THEN c ELSE Append(c, v)

\* ---------------------------------------------------------------- changes
\* Change::len and Change::max_op
ChangeLen(c) == Len(c.ops)

ChangeMaxOp(c) == c.start_op + ChangeLen(c) - 1

Hashes(s) == {s[i].hash : i \in 1..Len(s)}

\* The change with hash h among the changes made so far.
ChangeOf(h) == world[HashAt(h)]

WorldHashes == {HashAt(n) : n \in 1..Len(world)}

\* ------------------------------------------------------- history and heads
\* Automerge::new_with_actor_id
new_with_actor_id(a) ==
    [queue |-> <<>>, history |-> <<>>, history_index |-> <<>>,
     states |-> <<>>, deps |-> {}, saved |-> <<>>,
     ops |-> <<>>, actors |-> <<a>>, props |-> <<>>,
     actor |-> 0, max_op |-> 0]

\* Automerge::_get_heads
get_heads(D) == SortSet(D.deps)

\* Automerge::_get_change_by_hash; None is <<>>, Some(c) is <<c>>
get_change_by_hash(D, h) ==
    IF h \in DOMAIN D.history_index /\ D.history_index[h] < Len(D.history)
    THEN <<D.history[D.history_index[h] + 1]>>
    ELSE <<>>

\* get_hash reading states[actor][seq] where the source reads [seq - 1].
get_hash_next(D, actor, seq) ==
    IF actor \in DOMAIN D.states /\ seq < Len(D.states[actor])
       /\ D.states[actor][seq + 1] < Len(D.history)
    THEN <<D.history[D.states[actor][seq + 1] + 1].hash>>
    ELSE <<>>

\* Automerge::get_hash; Err(InvalidSeq) is <<>>
get_hash(D, actor, seq) ==
    IF actor \in DOMAIN D.states /\ seq - 1 < Len(D.states[actor])
       /\ D.states[actor][seq] < Len(D.history)
    THEN <<D.history[D.states[actor][seq] + 1].hash>>
    ELSE <<>>

\* update_deps leaving the deps of the change among the heads.
update_deps_keeps_deps(D, change) == D.deps \cup {change.hash}

\* Automerge::update_deps
update_deps(D, change) == (D.deps \ Range(change.deps)) \cup {change.hash}

\* update_history leaving max_op as it was.
update_history_keeps_max_op(D, change) ==
    LET actors1 == cache(D.actors, change.actor)
        ai == lookup(actors1, change.actor)
        idx == Len(D.history)
        old == IF ai \in DOMAIN D.states THEN D.states[ai] ELSE <<>>
    IN [D EXCEPT
          !.deps = update_deps(D, change),
          !.actors = actors1,
          !.states = (ai :> Append(old, idx)) @@ D.states,
          !.history_index = (change.hash :> idx) @@ D.history_index,
          !.history = Append(D.history, change)]

\* Automerge::update_history
update_history(D, change) ==
    LET actors1 == cache(D.actors, change.actor)
        ai == lookup(actors1, change.actor)
        idx == Len(D.history)
        old == IF ai \in DOMAIN D.states THEN D.states[ai] ELSE <<>>
    IN [D EXCEPT
          !.max_op = Max(D.max_op, ChangeMaxOp(change)),
          !.deps = update_deps(D, change),
          !.actors = actors1,
          !.states = (ai :> Append(old, idx)) @@ D.states,
          !.history_index = (change.hash :> idx) @@ D.history_index,
          !.history = Append(D.history, change)]

\* ------------------------------------------------------------ the op set
\* lamport_cmp: counters first, then the actor bytes (not the interned index).
\* -1 is Less, 0 is Equal, 1 is Greater.
lamport_cmp(actors, a, b) ==
    IF a[1] < b[1] THEN 0 - 1
    ELSE IF a[1] > b[1] THEN 1
    ELSE IF actors[a[2] + 1] < actors[b[2] + 1] THEN 0 - 1
    ELSE IF actors[a[2] + 1] > actors[b[2] + 1] THEN 1
    ELSE 0

\* prop_cmp: map keys compare as the strings they intern.
prop_cmp(props, l, r) ==
    IF props[l + 1] < props[r + 1] THEN 0 - 1
    ELSE IF props[l + 1] > props[r + 1] THEN 1
    ELSE 0

\* ObjId::root, the least object id, and HEAD, the element before the first.
root == <<0, 0>>

HEAD == <<0, 0>>

\* binary_search_by with f = lamport_cmp(op.obj, root).then(prop_cmp(op.key, key)):
\* the first position (0-based) whose op is not Less.
RECURSIVE binary_search_by(_, _, _, _, _)
binary_search_by(ops, props, key, left, right) ==
    IF left < right
    THEN LET seq == (left + right) \div 2
         IN IF ops[seq + 1].obj = root /\ prop_cmp(props, ops[seq + 1].key, key) = 0 - 1
            THEN binary_search_by(ops, props, key, seq + 1, right)
            ELSE binary_search_by(ops, props, key, left, seq)
    ELSE left

\* The arm of is_visible for Inc(inc_val): every counter the op names in its
\* pred loses the op from its succ and gains inc_val; the op is visible when
\* one of them has no succ left.
RECURSIVE inc_counters(_, _, _)
inc_counters(op, i, counters) ==
    IF i > Len(op.pred) THEN [visible |-> FALSE, counters |-> counters]
    ELSE LET id == op.pred[i]
         IN IF id \in DOMAIN counters
            THEN LET entry == counters[id]
                     succ1 == entry.succ \ {op.id}
                     val1 == entry.val + op.value
                     entry1 == [pos |-> entry.pos, val |-> val1, succ |-> succ1,
                                op |-> [entry.op EXCEPT !.value = val1]]
                     rest == inc_counters(op, i + 1, (id :> entry1) @@ counters)
                 IN [visible |-> (succ1 = {}) \/ rest.visible,
                     counters |-> rest.counters]
            ELSE inc_counters(op, i + 1, counters)

\* is_visible: whether the op is visible, and the counters of the scan after
\* the op.  Set(Counter(v)) is the action "set_counter", Inc(v) is "inc".
is_visible(op, pos, counters) ==
    IF op.action = "set_counter"
    THEN [visible |-> op.succ = <<>>,
          counters |-> (op.id :> [pos |-> pos, val |-> op.value,
                                  succ |-> Range(op.succ), op |-> op]) @@ counters]
    ELSE IF op.action = "inc"
    THEN inc_counters(op, 1, counters)
    ELSE [visible |-> op.succ = <<>>, counters |-> counters]

\* visible_op: the counter the op names first in its pred, if it names one, and
\* the op itself otherwise.
visible_op(op, pos, counters) ==
    LET named == {i \in 1..Len(op.pred) : op.pred[i] \in DOMAIN counters}
    IN IF named # {}
       THEN LET entry == counters[op.pred[CHOOSE i \in named : \A j \in named : i <= j]]
            IN [pos |-> entry.pos, op |-> entry.op]
       ELSE [pos |-> pos, op |-> op]

\* PropQuery::query_node_with_lookup on a tree of one node: the visible ops at
\* (root, key) in tree order, with their 0-based positions.
RECURSIVE PropScan(_, _, _, _)
PropScan(ops, key, pos, counters) ==
    IF pos >= Len(ops) \/ ops[pos + 1].obj # root \/ ops[pos + 1].key # key THEN <<>>
    ELSE LET v == is_visible(ops[pos + 1], pos, counters)
         IN IF v.visible
            THEN <<visible_op(ops[pos + 1], pos, v.counters)>>
                    \o PropScan(ops, key, pos + 1, v.counters)
            ELSE PropScan(ops, key, pos + 1, v.counters)

PropQuery(D, key) ==
    PropScan(D.ops, key, binary_search_by(D.ops, D.props, key, 0, Len(D.ops)), <<>>)

\* Op::overwrites: the new op names the old one in its pred.
overwrites(op, old) == Contains(op.pred, old.id)

\* SeekOp for a map key: from the first op of the key, collect the positions of
\* the ops the new op overwrites and stop after the first op with a greater
\* Lamport id; pos is the (0-based) place of the new op.
RECURSIVE SeekScan(_, _, _, _)
SeekScan(D, op, pos, succ) ==
    IF pos >= Len(D.ops) \/ D.ops[pos + 1].obj # op.obj \/ D.ops[pos + 1].key # op.key
    THEN [pos |-> pos, succ |-> succ]
    ELSE LET old == D.ops[pos + 1]
             succ1 == IF overwrites(op, old) THEN Append(succ, pos) ELSE succ
         IN IF lamport_cmp(D.actors, old.id, op.id) = 1
            THEN [pos |-> pos, succ |-> succ1]
            ELSE SeekScan(D, op, pos + 1, succ1)

SeekOp(D, op) ==
    SeekScan(D, op, binary_search_by(D.ops, D.props, op.key, 0, Len(D.ops)), <<>>)

\* Op::add_succ
add_succ(old, op) == [old EXCEPT !.succ = Append(@, op.id)]

\* Automerge::insert_op
insert_op(D, op) ==
    LET q == SeekOp(D, op)
        replaced == [i \in 1..Len(D.ops) |->
                        IF Contains(q.succ, i - 1) THEN add_succ(D.ops[i], op)
                        ELSE D.ops[i]]
    IN [D EXCEPT !.ops = IF op.action # "del"
                         THEN InsertAt(replaced, q.pos + 1, op)
                         ELSE replaced]

RECURSIVE cache_all(_, _)
cache_all(c, vs) ==
    IF vs = <<>> THEN c ELSE cache_all(cache(c, Head(vs)), Tail(vs))

\* Automerge::import_ops: the ops of the change with their references interned,
\* and the caches after the interning.  An op has Key::Map in key when it is
\* on the root map and Key::Seq in elem when it is on a list; the field it
\* does not use is 0 or HEAD.
RECURSIVE import_ops(_, _, _, _)
import_ops(D, change, change_id, i) ==
    IF i > Len(change.ops) THEN [doc |-> D, ops |-> <<>>]
    ELSE LET c == change.ops[i]
             actors1 == cache(D.actors, change.actor)
             actors0 == IF c.obj = root THEN actors1 ELSE cache(actors1, c.obj[2])
             actors2 == cache_all(actors0, [j \in 1..Len(c.pred) |-> c.pred[j][2]])
             actors3 == IF c.elem = HEAD THEN actors2
                        ELSE cache(actors2, c.elem[2])
             props1 == IF c.obj = root THEN cache(D.props, c.key) ELSE D.props
             op == [change |-> change_id,
                    id |-> <<change.start_op + (i - 1), lookup(actors1, change.actor)>>,
                    action |-> c.action,
                    value |-> c.value,
                    obj |-> IF c.obj = root THEN root
                            ELSE <<c.obj[1], lookup(actors0, c.obj[2])>>,
                    key |-> IF c.obj = root THEN lookup(props1, c.key) ELSE 0,
                    elem |-> IF c.elem = HEAD THEN HEAD
                             ELSE <<c.elem[1], lookup(actors3, c.elem[2])>>,
                    succ |-> <<>>,
                    pred |-> [j \in 1..Len(c.pred) |->
                                 <<c.pred[j][1], lookup(actors2, c.pred[j][2])>>],
                    insert |-> c.insert]
             rest == import_ops([D EXCEPT !.actors = actors3, !.props = props1],
                                change, change_id, i + 1)
         IN [doc |-> rest.doc, ops |-> <<op>> \o rest.ops]

RECURSIVE insert_ops(_, _)
insert_ops(D, ops) ==
    IF ops = <<>> THEN D ELSE insert_ops(insert_op(D, Head(ops)), Tail(ops))

\* ------------------------------------------- the change application pipeline
\* Automerge::apply_change
apply_change(D, change) ==
    LET imp == import_ops(D, change, Len(D.history), 1)
    IN insert_ops(update_history(imp.doc, change), imp.ops)

\* is_causally_ready looking at the first dep only.
is_causally_ready_first(D, change) ==
    change.deps = <<>> \/ change.deps[1] \in DOMAIN D.history_index

\* Automerge::is_causally_ready
is_causally_ready(D, change) ==
    \A i \in 1..Len(change.deps) : change.deps[i] \in DOMAIN D.history_index

\* duplicate_seq comparing with > where the source has >=.
duplicate_seq_gt(D, change) ==
    LET actor_index == lookup(D.actors, change.actor)
    IN IF actor_index # NoIdx /\ actor_index \in DOMAIN D.states
       THEN Len(D.states[actor_index]) > change.seq
       ELSE FALSE

\* Automerge::duplicate_seq
duplicate_seq(D, change) ==
    LET actor_index == lookup(D.actors, change.actor)
    IN IF actor_index # NoIdx /\ actor_index \in DOMAIN D.states
       THEN Len(D.states[actor_index]) >= change.seq
       ELSE FALSE

\* Automerge::pop_next_causally_ready_change; None is found = FALSE
pop_next_causally_ready_change(D) ==
    LET ready == {i \in 1..Len(D.queue) : is_causally_ready(D, D.queue[i])}
    IN IF ready = {} THEN [found |-> FALSE, doc |-> D]
       ELSE LET index == CHOOSE i \in ready : \A j \in ready : i <= j
            IN [found |-> TRUE, change |-> D.queue[index],
                doc |-> [D EXCEPT !.queue = swap_remove(D.queue, index)]]

\* The loop of apply_changes as an if: one change is taken from the queue.
drain_once(D) ==
    LET p == pop_next_causally_ready_change(D)
    IN IF p.found THEN apply_change(p.doc, p.change) ELSE D

\* The while loop of apply_changes.
RECURSIVE drain(_)
drain(D) ==
    LET p == pop_next_causally_ready_change(D)
    IN IF p.found THEN drain(apply_change(p.doc, p.change)) ELSE D

\* The for loop of apply_changes from element i on: the document after it and
\* the index of the change that made it return an error (0: none did).
RECURSIVE apply_loop(_, _, _)
apply_loop(D, changes, i) ==
    IF i > Len(changes) THEN [doc |-> D, at |-> 0]
    ELSE LET c == changes[i]
         IN IF c.hash \in DOMAIN D.history_index THEN apply_loop(D, changes, i + 1)
            ELSE IF duplicate_seq(D, c) THEN [doc |-> D, at |-> i]
            ELSE IF is_causally_ready(D, c)
                 THEN apply_loop(apply_change(D, c), changes, i + 1)
                 ELSE apply_loop([D EXCEPT !.queue = Append(@, c)], changes, i + 1)

\* Automerge::apply_changes: the document after the call, the result and, for
\* an error, DuplicateSeqNumber's fields.
apply_changes(D, changes) ==
    LET r == apply_loop(D, changes, 1)
    IN IF r.at # 0
       THEN [doc |-> r.doc, res |-> "DuplicateSeqNumber", at |-> r.at,
             err |-> <<changes[r.at].seq, changes[r.at].actor>>]
       ELSE [doc |-> drain(r.doc), res |-> "Ok", at |-> 0, err |-> <<>>]

\* ---------------------------------------------------------- history queries
\* Automerge::_get_changes_added: depth-first from other's heads, not going past
\* a change this document has; the changes found, in the reverse of the order
\* in which they were found.
RECURSIVE changes_added_dfs(_, _, _, _, _)
changes_added_dfs(D, other, stack, seen_hashes, added_change_hashes) ==
    IF stack = <<>> THEN added_change_hashes
    ELSE LET hash == stack[Len(stack)]
             rest == SubSeq(stack, 1, Len(stack) - 1)
         IN IF hash \notin seen_hashes /\ get_change_by_hash(D, hash) = <<>>
            THEN LET found == get_change_by_hash(other, hash)
                     more == IF found # <<>> THEN found[1].deps ELSE <<>>
                 IN changes_added_dfs(D, other, rest \o more,
                                      seen_hashes \cup {hash},
                                      Append(added_change_hashes, hash))
            ELSE changes_added_dfs(D, other, rest, seen_hashes, added_change_hashes)

Reverse(s) == [i \in 1..Len(s) |-> s[Len(s) + 1 - i]]

RECURSIVE FilterMapChanges(_, _)
FilterMapChanges(other, hs) ==
    IF hs = <<>> THEN <<>>
    ELSE get_change_by_hash(other, Head(hs)) \o FilterMapChanges(other, Tail(hs))

get_changes_added(D, other) ==
    FilterMapChanges(other,
        Reverse(changes_added_dfs(D, other, get_heads(other), {}, <<>>)))

\* history_index.get(hash).unwrap_or(&0)
index_or_zero(D, hash) ==
    IF hash \in DOMAIN D.history_index THEN D.history_index[hash] ELSE 0

\* The inner for of filter_changes: each dep goes to the front of the queue
\* when the hash was removed from may_find and to the back otherwise.
RECURSIVE push_deps(_, _, _, _)
push_deps(queue, deps, i, removed) ==
    IF i > Len(deps) THEN queue
    ELSE push_deps(IF removed THEN <<deps[i]>> \o queue ELSE Append(queue, deps[i]),
                   deps, i + 1, removed)

\* The while loop of filter_changes: the hashes left in changes.
RECURSIVE filter_loop(_, _, _, _, _)
filter_loop(D, queue, seen, may_find, changes) ==
    IF queue = <<>> THEN changes
    ELSE LET hash == Head(queue)
             found == get_change_by_hash(D, hash)
         IN IF hash \in seen
            THEN filter_loop(D, Tail(queue), seen, may_find, changes)
            ELSE IF may_find \ {hash} = {} THEN changes \ {hash}
            ELSE filter_loop(D,
                     push_deps(Tail(queue),
                               IF found # <<>> THEN found[1].deps ELSE <<>>,
                               1, hash \in may_find),
                     seen \cup {hash}, may_find \ {hash}, changes \ {hash})

\* Automerge::filter_changes: the set changes after the call.
filter_changes(D, heads, changes) ==
    LET max_head_index ==
            IF heads = <<>> THEN 0
            ELSE CHOOSE x \in {index_or_zero(D, heads[i]) : i \in 1..Len(heads)} :
                    \A i \in 1..Len(heads) : index_or_zero(D, heads[i]) <= x
        may_find == {hash \in changes : index_or_zero(D, hash) <= max_head_index}
    IN IF may_find = {} THEN changes
       ELSE filter_loop(D, heads, {}, may_find, changes)

\* _get_missing_deps without the filter on the hashes of the queued changes.
get_missing_deps_unfiltered(D, heads) ==
    SortSet({h \in UNION {Range(D.queue[i].deps) : i \in 1..Len(D.queue)} \cup Range(heads) :
                h \notin DOMAIN D.history_index})

\* Automerge::_get_missing_deps
get_missing_deps(D, heads) ==
    LET in_queue == Hashes(D.queue)
        from_queue == {h \in UNION {Range(D.queue[i].deps) : i \in 1..Len(D.queue)} :
                          h \notin DOMAIN D.history_index}
        from_heads == {h \in Range(heads) : h \notin DOMAIN D.history_index}
        missing == from_queue \cup from_heads
    IN SortSet({hash \in missing : hash \notin in_queue})

\* The for loop of get_changes_fast over history[i..] (i 1-based): None is
\* [some |-> FALSE].
RECURSIVE changes_fast_loop(_, _, _, _)
changes_fast_loop(D, i, has_seen, missing_changes) ==
    IF i > Len(D.history)
    THEN IF \A h \in Range(get_heads(D)) : h \in has_seen
         THEN [some |-> TRUE, changes |-> missing_changes]
         ELSE [some |-> FALSE, changes |-> <<>>]
    ELSE LET change == D.history[i]
             deps_seen == Cardinality({j \in 1..Len(change.deps) :
                                          change.deps[j] \in has_seen})
         IN IF deps_seen > 0
            THEN IF deps_seen # Len(change.deps)
                 THEN [some |-> FALSE, changes |-> <<>>]
                 ELSE changes_fast_loop(D, i + 1, has_seen \cup {change.hash},
                                        Append(missing_changes, change))
            ELSE changes_fast_loop(D, i + 1, has_seen, missing_changes)

\* Automerge::get_changes_fast
get_changes_fast(D, have_deps) ==
    IF have_deps = <<>> THEN [some |-> TRUE, changes |-> D.history]
    ELSE LET known == {D.history_index[h] :
                          h \in Range(have_deps) \cap DOMAIN D.history_index}
         IN IF known = {} THEN [some |-> FALSE, changes |-> <<>>]
            ELSE LET lowest_idx == (CHOOSE i \in known : \A j \in known : i <= j) + 1
                 IN changes_fast_loop(D, lowest_idx + 1, Range(have_deps), <<>>)

\* The while loop of get_changes_slow: the hashes seen from the stack.
RECURSIVE changes_slow_dfs(_, _, _)
changes_slow_dfs(D, stack, has_seen) ==
    IF stack = <<>> THEN has_seen
    ELSE LET hash == stack[Len(stack)]
             rest == SubSeq(stack, 1, Len(stack) - 1)
         IN IF hash \in has_seen THEN changes_slow_dfs(D, rest, has_seen)
            ELSE LET found == get_change_by_hash(D, hash)
                     more == IF found # <<>> THEN found[1].deps ELSE <<>>
                 IN changes_slow_dfs(D, rest \o more, has_seen \cup {hash})

\* Automerge::get_changes_slow
get_changes_slow(D, have_deps) ==
    LET has_seen == changes_slow_dfs(D, have_deps, {})
        unseen(change) == change.hash \notin has_seen
    IN SelectSeq(D.history, unseen)

\* Automerge::_get_changes
get_changes(D, have_deps) ==
    LET fast == get_changes_fast(D, have_deps)
    IN IF fast.some THEN fast.changes ELSE get_changes_slow(D, have_deps)

\* --------------------------------------------------------------------- reads
\* Automerge::id_to_exid: the op id with the actor's bytes
id_to_exid(D, id) == <<id[1], D.actors[id[2] + 1]>>

\* Op::value: the scalar of a set, tagged as the counter or the integer it is,
\* and the kind of object of a make.
op_value(op) ==
    <<IF op.action = "set_counter" THEN "counter"
      ELSE IF op.action = "make_list" THEN "list"
      ELSE IF op.action = "make_map" THEN "map"
      ELSE "int", op.value>>

\* Automerge::values on the root map: the visible (value, id) pairs at the key
values(D, prop) ==
    LET p == lookup(D.props, prop)
    IN IF p # NoIdx
       THEN LET q == PropQuery(D, p)
            IN [i \in 1..Len(q) |-> <<op_value(q[i].op), id_to_exid(D, q[i].op.id)>>]
       ELSE <<>>

\* Automerge::value: the last of values; None is <<>>
value(D, prop) ==
    LET vs == values(D, prop)
    IN IF vs = <<>> THEN <<>> ELSE <<vs[Len(vs)]>>

\* Automerge::keys on the root map: the keys that have a visible op, in tree
\* order, as strings.
RECURSIVE KeysScan(_, _, _, _)
KeysScan(D, pos, keys, counters) ==
    IF pos > Len(D.ops) \/ D.ops[pos].obj # root THEN keys
    ELSE LET op == D.ops[pos]
             name == D.props[op.key + 1]
             v == is_visible(op, pos - 1, counters)
         IN IF v.visible /\ ~Contains(keys, name)
            THEN KeysScan(D, pos + 1, Append(keys, name), v.counters)
            ELSE KeysScan(D, pos + 1, keys, v.counters)

keys(D) == KeysScan(D, 1, <<>>, <<>>)

\* Automerge::length on the root object, which is a map
length(D) == Len(keys(D))

\* --------------------------------------------------------- reads at heads
\* Clock::include: the greatest op counter seen for the actor.
clock_include(clock, actor, n) ==
    IF actor \in DOMAIN clock
    THEN [clock EXCEPT ![actor] = Max(@, n)]
    ELSE (actor :> n) @@ clock

\* Clock::covers: the op id is at or below the clock's counter for its actor.
covers(clock, id) == id[2] \in DOMAIN clock /\ id[1] <= clock[id[2]]

RECURSIVE clock_at_dfs(_, _, _, _)
\* clock_at looking at the heads and not at their deps.
clock_at_heads_only(D, to_see, seen, clock) ==
    IF to_see = <<>> THEN clock
    ELSE LET hash == to_see[Len(to_see)]
             rest == SubSeq(to_see, 1, Len(to_see) - 1)
             found == get_change_by_hash(D, hash)
         IN IF found # <<>>
            THEN LET c == found[1]
                 IN clock_at_dfs(D, rest, seen \cup {hash},
                       clock_include(clock, lookup(D.actors, c.actor), ChangeMaxOp(c)))
            ELSE clock_at_dfs(D, rest, seen, clock)

\* Automerge::clock_at: the loop over to_see.
clock_at_dfs(D, to_see, seen, clock) ==
    IF to_see = <<>> THEN clock
    ELSE LET hash == to_see[Len(to_see)]
             rest == SubSeq(to_see, 1, Len(to_see) - 1)
             found == get_change_by_hash(D, hash)
         IN IF found # <<>>
            THEN LET c == found[1]
                     unseen(h) == h \notin seen
                 IN clock_at_dfs(D, rest \o SelectSeq(c.deps, unseen), seen \cup {hash},
                       clock_include(clock, lookup(D.actors, c.actor), ChangeMaxOp(c)))
            ELSE clock_at_dfs(D, rest, seen, clock)

\* Automerge::clock_at
clock_at(D, heads) == clock_at_dfs(D, heads, {}, <<>>)

\* The arm of visibility at a clock for Inc(inc_val).
RECURSIVE inc_counters_at(_, _, _, _)
inc_counters_at(op, i, counters, clock) ==
    IF i > Len(op.pred) THEN [visible |-> FALSE, counters |-> counters]
    ELSE LET id == op.pred[i]
         IN IF id \in DOMAIN counters
            THEN LET entry == counters[id]
                     succ1 == entry.succ \ {op.id}
                     val1 == entry.val + op.value
                     entry1 == [pos |-> entry.pos, val |-> val1, succ |-> succ1,
                                op |-> [entry.op EXCEPT !.value = val1]]
                     rest == inc_counters_at(op, i + 1, (id :> entry1) @@ counters, clock)
                 IN [visible |-> (succ1 = {}) \/ rest.visible,
                     counters |-> rest.counters]
            ELSE inc_counters_at(op, i + 1, counters, clock)

\* Visibility at a clock: the op is covered by the clock and none of its succ
\* is; a counter counts the increments the clock covers.
visible_at(op, pos, counters, clock) ==
    LET succ == {id \in Range(op.succ) : covers(clock, id)}
    IN IF ~covers(clock, op.id) THEN [visible |-> FALSE, counters |-> counters]
       ELSE IF op.action = "set_counter"
       THEN [visible |-> succ = {},
             counters |-> (op.id :> [pos |-> pos, val |-> op.value,
                                     succ |-> succ, op |-> op]) @@ counters]
       ELSE IF op.action = "inc"
       THEN inc_counters_at(op, 1, counters, clock)
       ELSE [visible |-> succ = {}, counters |-> counters]

\* PropAt: the ops at (root, key) that are visible at the clock, in tree order.
RECURSIVE PropAtScan(_, _, _, _, _)
PropAtScan(ops, key, pos, counters, clock) ==
    IF pos >= Len(ops) \/ ops[pos + 1].obj # root \/ ops[pos + 1].key # key THEN <<>>
    ELSE LET v == visible_at(ops[pos + 1], pos, counters, clock)
         IN IF v.visible
            THEN <<visible_op(ops[pos + 1], pos, v.counters)>>
                    \o PropAtScan(ops, key, pos + 1, v.counters, clock)
            ELSE PropAtScan(ops, key, pos + 1, v.counters, clock)

PropAt(D, key, clock) ==
    PropAtScan(D.ops, key, binary_search_by(D.ops, D.props, key, 0, Len(D.ops)),
               <<>>, clock)

\* Automerge::values_at on the root map
values_at(D, prop, heads) ==
    LET p == lookup(D.props, prop)
        clock == clock_at(D, heads)
    IN IF p # NoIdx
       THEN LET q == PropAt(D, p, clock)
            IN [i \in 1..Len(q) |-> <<op_value(q[i].op), id_to_exid(D, q[i].op.id)>>]
       ELSE <<>>

\* Automerge::value_at: the last of values_at; None is <<>>
value_at(D, prop, heads) ==
    LET vs == values_at(D, prop, heads)
    IN IF vs = <<>> THEN <<>> ELSE <<vs[Len(vs)]>>

\* KeysAt: the keys of the root map that have an op visible at the clock.
RECURSIVE KeysAtScan(_, _, _, _, _)
KeysAtScan(D, pos, names, counters, clock) ==
    IF pos > Len(D.ops) \/ D.ops[pos].obj # root THEN names
    ELSE LET op == D.ops[pos]
             name == D.props[op.key + 1]
             v == visible_at(op, pos - 1, counters, clock)
         IN IF v.visible /\ ~Contains(names, name)
            THEN KeysAtScan(D, pos + 1, Append(names, name), v.counters, clock)
            ELSE KeysAtScan(D, pos + 1, names, v.counters, clock)

\* Automerge::keys_at on the root map
keys_at(D, heads) == KeysAtScan(D, 1, <<>>, <<>>, clock_at(D, heads))

\* Automerge::length_at on the root object, which is a map
length_at(D, heads) == Len(keys_at(D, heads))

\* ------------------------------------------------------- reads on an object
\* ExId::Root, and ExId::Id(ctr, actor, idx) as a record.  The reads of this
\* section are on the root map or on an object that holds no op.
Root == [ctr |-> 0, actor |-> 0, idx |-> 0]

ExId(ctr, actor, idx) == [ctr |-> ctr, actor |-> actor, idx |-> idx]

Ok(v) == [res |-> "Ok", ret |-> v]

Err(e) == [res |-> e, ret |-> <<>>]

\* Automerge::exid_to_obj: Ok of the root (counter 0) or of the op id with the
\* actor's index, Err(Fail) for an actor the document has not seen.
exid_to_obj(D, id) ==
    IF id = Root THEN Ok(<<0, 0>>)
    ELSE IF id.idx < Len(D.actors) /\ D.actors[id.idx + 1] = id.actor
    THEN Ok(<<id.ctr, id.idx>>)
    ELSE IF lookup(D.actors, id.actor) # NoIdx
    THEN Ok(<<id.ctr, lookup(D.actors, id.actor)>>)
    ELSE Err("Fail")

\* Automerge::keys(obj): a search of an object that holds no op finds no key.
keys_of(D, obj) ==
    IF exid_to_obj(D, obj).res = "Ok"
    THEN IF obj = Root THEN keys(D) ELSE <<>>
    ELSE <<>>

\* Automerge::keys_at(obj, heads)
keys_at_of(D, obj, heads) ==
    IF exid_to_obj(D, obj).res = "Ok"
    THEN IF obj = Root THEN keys_at(D, heads) ELSE <<>>
    ELSE <<>>

\* Automerge::length(obj): the object type of an object that does not exist is
\* None.
length_of(D, obj) ==
    IF exid_to_obj(D, obj).res = "Ok"
    THEN IF obj = Root THEN Len(keys_of(D, obj)) ELSE 0
    ELSE 0

\* Automerge::length_at(obj, heads)
length_at_of(D, obj, heads) ==
    IF exid_to_obj(D, obj).res = "Ok"
    THEN IF obj = Root THEN Len(keys_at_of(D, obj, heads)) ELSE 0
    ELSE 0

\* Automerge::text(obj): no object of the documents holds a list element.
text(D, obj) ==
    LET o == exid_to_obj(D, obj)
    IN IF o.res # "Ok" THEN Err(o.res) ELSE Ok(<<>>)

\* Automerge::text_at(obj, heads)
text_at(D, obj, heads) ==
    LET o == exid_to_obj(D, obj)
    IN IF o.res # "Ok" THEN Err(o.res) ELSE Ok(<<>>)

\* Automerge::values(obj, prop) with a map key
values_of(D, obj, prop) ==
    LET o == exid_to_obj(D, obj)
    IN IF o.res # "Ok" THEN Err(o.res)
       ELSE Ok(IF obj = Root THEN values(D, prop) ELSE <<>>)

\* Automerge::values_at(obj, prop, heads) with a map key
values_at_of(D, obj, prop, heads) ==
    LET o == exid_to_obj(D, obj)
    IN IF o.res # "Ok" THEN Err(o.res)
       ELSE Ok(IF obj = Root THEN values_at(D, prop, heads) ELSE <<>>)

\* Automerge::value(obj, prop): the last of values; None is <<>>
value_of(D, obj, prop) ==
    LET vs == values_of(D, obj, prop)
    IN IF vs.res # "Ok" THEN vs
       ELSE Ok(IF vs.ret = <<>> THEN <<>> ELSE <<vs.ret[Len(vs.ret)]>>)

\* Automerge::value_at(obj, prop, heads)
value_at_of(D, obj, prop, heads) ==
    LET vs == values_at_of(D, obj, prop, heads)
    IN IF vs.res # "Ok" THEN vs
       ELSE Ok(IF vs.ret = <<>> THEN <<>> ELSE <<vs.ret[Len(vs.ret)]>>)

\* ------------------------------------------------------------------ import
\* A string is a sequence of characters.  Chars has digits, which are hex
\* digits too, the separator, and a letter that is neither.
Chars == {"0", "1", "2", "@", "g"}

Strings == SeqsUpTo(Chars, MaxStrLen)

RootStr == <<"_", "r", "o", "o", "t">>

DigitVal == ("0" :> 0) @@ ("1" :> 1) @@ ("2" :> 2)

\* str::find: the 0-based index of the first ch; None is NoIdx.
find(s, ch) ==
    IF \E i \in 1..Len(s) : s[i] = ch
    THEN (CHOOSE i \in 1..Len(s) : s[i] = ch /\ \A j \in 1..(i - 1) : s[j] # ch) - 1
    ELSE NoIdx

\* The number a sequence of digits is in base b.
RECURSIVE Number(_, _)
Number(s, b) ==
    IF s = <<>> THEN 0
    ELSE Number(SubSeq(s, 1, Len(s) - 1), b) * b + DigitVal[s[Len(s)]]

\* str::parse::<u64>: Err is <<>>, Ok(n) is <<n>>.
parse(s) ==
    IF s # <<>> /\ \A i \in 1..Len(s) : s[i] \in DOMAIN DigitVal
    THEN <<Number(s, 10)>>
    ELSE <<>>

\* hex::decode: Err is [ok |-> FALSE]; two hex digits make a byte.
hex_decode(s) ==
    IF Len(s) % 2 = 0 /\ \A i \in 1..Len(s) : s[i] \in DOMAIN DigitVal
    THEN [ok |-> TRUE,
          bytes |-> [i \in 1..(Len(s) \div 2) |->
                        Number(SubSeq(s, 2 * i - 1, 2 * i), 16)]]
    ELSE [ok |-> FALSE, bytes |-> <<>>]

\* ActorId::from: an actor of the documents is one byte; the bytes of another
\* length are an actor no document holds.
ActorId(bytes) ==
    IF Len(bytes) = 1 THEN bytes[1] ELSE 256 + Number(bytes, 256)

\* Automerge::import: Ok(id), Err(InvalidOpId(s)), or the panic of the unwrap
\* of hex::decode.
import(D, s) ==
    IF s = RootStr THEN Ok(Root)
    ELSE LET n == find(s, "@")
         IN IF n = NoIdx THEN [res |-> "InvalidOpId", ret |-> s]
            ELSE LET counter == parse(SubSeq(s, 1, n))
                     decoded == hex_decode(SubSeq(s, n + 2, Len(s)))
                 IN IF counter = <<>> THEN [res |-> "InvalidOpId", ret |-> s]
                    ELSE IF ~decoded.ok THEN [res |-> "panic", ret |-> <<>>]
                    ELSE LET actor == lookup(D.actors, ActorId(decoded.bytes))
                         IN IF actor = NoIdx
                            THEN [res |-> "InvalidOpId", ret |-> s]
                            ELSE Ok(ExId(counter[1], D.actors[actor + 1], actor))

\* ------------------------------------------------------------ transactions
\* tx taking the heads alone for the deps.
tx_heads(D) ==
    LET actor == D.actor
        entry == IF actor \in DOMAIN D.states THEN D.states[actor] ELSE <<>>
        D1 == [D EXCEPT !.states = (actor :> entry) @@ D.states]
    IN [doc |-> D1, actor |-> actor, seq |-> Len(entry) + 1,
        start_op |-> D1.max_op + 1, deps |-> get_heads(D1), panic |-> FALSE]

\* Automerge::tx on a document whose actor is set: the document after the call
\* (states has an entry for the actor) and the fields of the transaction; panic
\* is the unwrap of get_hash failing.
tx(D) ==
    LET actor == D.actor
        entry == IF actor \in DOMAIN D.states THEN D.states[actor] ELSE <<>>
        D1 == [D EXCEPT !.states = (actor :> entry) @@ D.states]
        seq == Len(entry) + 1
        heads == get_heads(D1)
        last_hash == IF seq > 1 THEN get_hash(D1, actor, seq - 1) ELSE <<>>
        deps == IF last_hash # <<>> /\ ~Contains(heads, last_hash[1])
                THEN Append(heads, last_hash[1])
                ELSE heads
    IN [doc |-> D1, actor |-> actor, seq |-> seq,
        start_op |-> D1.max_op + 1, deps |-> deps,
        panic |-> seq > 1 /\ last_hash = <<>>]

\* Transaction::set of a scalar at a key of the root map: the ops the
\* transaction holds afterwards.  Setting the value the key already has, with no
\* conflict, makes no op.
tx_set(D, t, prop, v) ==
    LET props1 == cache(D.props, prop)
        q == PropQuery([D EXCEPT !.props = props1], lookup(props1, prop))
    IN IF Len(q) = 1 /\ q[1].op.action = "set" /\ q[1].op.value = v
       THEN <<>>
       ELSE <<[action |-> "set", value |-> v, obj |-> root, key |-> prop,
               elem |-> HEAD,
               pred |-> [i \in 1..Len(q) |-> id_to_exid(D, q[i].op.id)],
               insert |-> FALSE]>>

\* Transaction::set, inc and del at a key of the root map: the ops the
\* transaction holds afterwards.  The pred of the op is the ids of the ops that
\* are visible at the key; a set of the scalar the key already has, with no
\* conflict, makes no op, and a set of an object ("make_list", "make_map")
\* always makes one.
tx_op(D, t, action, prop, v) ==
    LET props1 == cache(D.props, prop)
        q == PropQuery([D EXCEPT !.props = props1], lookup(props1, prop))
    IN IF Len(q) = 1 /\ action \in {"set", "set_counter"}
          /\ q[1].op.action = action /\ q[1].op.value = v
       THEN <<>>
       ELSE <<[action |-> action, value |-> v, obj |-> root, key |-> prop,
               elem |-> HEAD,
               pred |-> [i \in 1..Len(q) |-> id_to_exid(D, q[i].op.id)],
               insert |-> FALSE]>>

\* The change a transaction commits, without its hash.
tx_change(D, t, ops) ==
    [actor |-> D.actors[t.actor + 1], seq |-> t.seq, start_op |-> t.start_op,
     deps |-> t.deps, ops |-> ops]

WithHash(content, h) ==
    [hash |-> h, actor |-> content.actor, seq |-> content.seq,
     start_op |-> content.start_op, deps |-> content.deps, ops |-> content.ops]

\* The positions in world of the changes with this content.
SameContent(content) ==
    {n \in 1..Len(world) : world[n] = WithHash(content, HashAt(n))}

\* Transaction::commit: the ops are in the op set and the change is recorded.
tx_commit(D, change) ==
    LET imp == import_ops(D, change, Len(D.history), 1)
    IN update_history(insert_ops(imp.doc, imp.ops), change)

\* ------------------------------------------------------------------ lists
\* Op::elemid: the element an op on a list is about.
elemid(op) == IF op.insert THEN op.id ELSE op.elem

\* The list elements of the object that have a visible op; the index of the
\* tree keeps their number in lens[obj].
visible_elems(D, obj) ==
    {elemid(D.ops[i]) :
        i \in {j \in 1..Len(D.ops) : D.ops[j].obj = obj /\ D.ops[j].succ = <<>>}}

RECURSIVE NthScan(_, _, _, _, _, _, _)
\* query_element keeping last_seen at an insert op.
NthScan_keeps_last_seen(D, obj, target, index, seen, last_seen, counters) ==
    IF index >= Len(D.ops) THEN <<>>
    ELSE LET element == D.ops[index + 1]
         IN IF element.obj # obj
            THEN IF seen > target THEN <<>>
                 ELSE NthScan(D, obj, target, index + 1, seen, last_seen, counters)
            ELSE IF element.insert /\ seen > target THEN <<>>
            ELSE LET last1 == last_seen
                     v == is_visible(element, index, counters)
                     counts == v.visible /\ last1 = <<>>
                     seen1 == IF counts THEN seen + 1 ELSE seen
                     last2 == IF counts THEN <<elemid(element)>> ELSE last1
                     found == IF seen1 = target + 1 /\ v.visible
                              THEN <<visible_op(element, index, v.counters)>>
                              ELSE <<>>
                 IN found \o NthScan(D, obj, target, index + 1, seen1, last2,
                                     v.counters)

\* NthQuery::query_element from position index on: the visible ops of the
\* element that is the target-th visible one (0-based).
NthScan(D, obj, target, index, seen, last_seen, counters) ==
    IF index >= Len(D.ops) THEN <<>>
    ELSE LET element == D.ops[index + 1]
         IN IF element.obj # obj
            THEN IF seen > target THEN <<>>
                 ELSE NthScan(D, obj, target, index + 1, seen, last_seen, counters)
            ELSE IF element.insert /\ seen > target THEN <<>>
            ELSE LET last1 == IF element.insert THEN <<>> ELSE last_seen
                     v == is_visible(element, index, counters)
                     counts == v.visible /\ last1 = <<>>
                     seen1 == IF counts THEN seen + 1 ELSE seen
                     last2 == IF counts THEN <<elemid(element)>> ELSE last1
                     found == IF seen1 = target + 1 /\ v.visible
                              THEN <<visible_op(element, index, v.counters)>>
                              ELSE <<>>
                 IN found \o NthScan(D, obj, target, index + 1, seen1, last2,
                                     v.counters)

\* NthQuery on a tree of one node: query_node goes into the node when the
\* index has enough visible elements of the object, and skips it otherwise.
NthQuery(D, obj, target) ==
    LET num_vis == Cardinality(visible_elems(D, obj))
    IN IF num_vis > 0 /\ num_vis >= target
       THEN NthScan(D, obj, target, 0, 0, <<>>, <<>>)
       ELSE <<>>

\* NthQuery::new, with the result of the last callback in fin.
NthNew(obj, target) ==
    [obj |-> obj, target |-> target, index |-> 0, seen |-> 0, last_seen |-> <<>>,
     counters |-> <<>>, ops |-> <<>>, fin |-> FALSE]

\* Op::elemid as an Option: an op with a map key has none.
elemid_opt(op) ==
    IF op.insert THEN <<op.id>> ELSE IF op.obj = root THEN <<>> ELSE <<op.elem>>

\* NthQuery::query_element: the query after the callback; fin is Finish.
query_element(q, element) ==
    LET q1 == [q EXCEPT !.index = @ + 1]
        Counted(last1, v) ==
            LET counts == v.visible /\ last1 = <<>>
                seen1 == IF counts THEN q.seen + 1 ELSE q.seen
            IN [q1 EXCEPT !.seen = seen1,
                          !.last_seen = IF counts THEN elemid_opt(element) ELSE last1,
                          !.counters = v.counters,
                          !.ops = IF seen1 = q.target + 1 /\ v.visible
                                  THEN Append(@, visible_op(element, q.index, v.counters))
                                  ELSE @]
    IN IF element.obj # q.obj THEN [q1 EXCEPT !.fin = q.seen > q.target]
       ELSE IF element.insert /\ q.seen > q.target THEN [q1 EXCEPT !.fin = TRUE]
       ELSE Counted(IF element.insert THEN <<>> ELSE q.last_seen,
                    is_visible(element, q.index, q.counters))

\* The summary index of a node for an object: visible[obj] has the elements
\* with an op without successors in the node, and lens[obj] their number;
\* there is no entry when the node has none.
node_visible(child, obj) ==
    {elemid(child[i]) :
        i \in {j \in 1..Len(child) : child[j].obj = obj /\ child[j].succ = <<>>}}

\* NthQuery::query_node: the verdict on a child and the query after it.
query_node(q, child) ==
    LET vis == node_visible(child, q.obj)
        num_vis == IF q.last_seen # <<>> /\ q.last_seen[1] \in vis
                   THEN Cardinality(vis) - 1 ELSE Cardinality(vis)
    IN IF vis = {} THEN [verdict |-> "Next", q |-> q]
       ELSE IF q.seen + num_vis >= q.target THEN [verdict |-> "Decend", q |-> q]
       ELSE [verdict |-> "Next",
             q |-> [q EXCEPT !.index = @ + Len(child),
                             !.seen = @ + num_vis,
                             !.last_seen = elemid_opt(child[Len(child)])]]

\* The search of a leaf: query_element on each op until one says Finish.
RECURSIVE search_leaf(_, _, _)
search_leaf(q, elements, i) ==
    IF i > Len(elements) \/ q.fin THEN q
    ELSE search_leaf(query_element(q, elements[i]), elements, i + 1)

\* The search of a node with children: the ops at the positions seps are the
\* elements of the node and the runs between them its children, which are
\* leaves.  Each child is asked with query_node and searched on Decend, then
\* the element after it is given to query_element.
RECURSIVE search_node(_, _, _, _)
search_node(q, ops, seps, start) ==
    LET next == IF seps = {} THEN Len(ops) + 1
                ELSE CHOOSE s \in seps : \A r \in seps : s <= r
        Child(n) == IF n.verdict = "Decend"
                    THEN search_leaf(n.q, SubSeq(ops, start, next - 1), 1)
                    ELSE n.q
        Element(q1) == IF q1.fin \/ next > Len(ops) THEN q1
                       ELSE search_node(query_element(q1, ops[next]), ops,
                                        seps \ {next}, next + 1)
    IN IF q.fin THEN q
       ELSE Element(Child(query_node(q, SubSeq(ops, start, next - 1))))

\* OpTree::search with an NthQuery: the ops found.  A tree without seps is
\* one leaf.
search_nth(D, obj, target, seps) ==
    IF seps = {} THEN search_leaf(NthNew(obj, target), D.ops, 1).ops
    ELSE search_node(NthNew(obj, target), D.ops, seps, 1).ops

\* Automerge::values with a list index
values_seq(D, obj, n) ==
    LET q == NthQuery(D, obj, n)
    IN [i \in 1..Len(q) |-> <<op_value(q[i].op), id_to_exid(D, q[i].op.id)>>]

\* Automerge::value with a list index: the last of values; None is <<>>
value_seq(D, obj, n) ==
    LET vs == values_seq(D, obj, n)
    IN IF vs = <<>> THEN <<>> ELSE <<vs[Len(vs)]>>

\* Automerge::length of a list: the Len query reads lens[obj].
length_seq(D, obj) == Cardinality(visible_elems(D, obj))

\* The first position of the tree that is not before the ops of the object.
RECURSIVE ObjStart(_, _, _)
ObjStart(D, obj, pos) ==
    IF pos >= Len(D.ops) \/ lamport_cmp(D.actors, D.ops[pos + 1].obj, obj) # 0 - 1
    THEN pos
    ELSE ObjStart(D, obj, pos + 1)

\* InsertNth: the scan stops at the insert op that follows the target-th
\* visible element; the new op goes there, after the element it names.
RECURSIVE InsertNthScan(_, _, _, _, _, _, _, _)
InsertNthScan(D, obj, target, pos, seen, last_seen, last_insert, counters) ==
    IF pos >= Len(D.ops) \/ D.ops[pos + 1].obj # obj
    THEN [pos |-> pos, seen |-> seen, last_insert |-> last_insert]
    ELSE LET element == D.ops[pos + 1]
         IN IF element.insert /\ seen >= target
            THEN [pos |-> pos, seen |-> seen, last_insert |-> last_insert]
            ELSE LET last1 == IF element.insert THEN <<>> ELSE last_seen
                     ins1 == IF element.insert THEN <<elemid(element)>>
                             ELSE last_insert
                     v == is_visible(element, pos, counters)
                     counts == v.visible /\ last1 = <<>>
                 IN InsertNthScan(D, obj, target, pos + 1,
                                  IF counts THEN seen + 1 ELSE seen,
                                  IF counts THEN <<elemid(element)>> ELSE last1,
                                  ins1, v.counters)

\* InsertNth: where an insert at the index goes and the element it names;
\* InvalidIndex when the list has fewer visible elements than that.
InsertNth(D, obj, target) ==
    LET q == InsertNthScan(D, obj, target, ObjStart(D, obj, 0), 0, <<>>, <<>>, <<>>)
    IN IF target = 0 THEN [res |-> "Ok", pos |-> q.pos, key |-> HEAD]
       ELSE IF q.seen = target /\ q.last_insert # <<>>
       THEN [res |-> "Ok", pos |-> q.pos, key |-> q.last_insert[1]]
       ELSE [res |-> "InvalidIndex", pos |-> q.pos, key |-> HEAD]

\* Transaction::insert: the op is put in the tree where InsertNth says; n ops
\* are in the transaction already.
tx_insert(D, t, obj, index, v, n) ==
    LET q == InsertNth(D, obj, index)
        op == [change |-> Len(D.history), id |-> <<t.start_op + n, t.actor>>,
               action |-> "set", value |-> v, obj |-> obj, key |-> 0,
               elem |-> q.key,
               succ |-> <<>>, pred |-> <<>>, insert |-> TRUE]
    IN IF q.res # "Ok" THEN [res |-> q.res, doc |-> D, ops |-> <<>>]
       ELSE [res |-> "Ok", doc |-> [D EXCEPT !.ops = InsertAt(@, q.pos + 1, op)],
             ops |-> <<op>>]

\* Transaction::del with a list index: a Del that names the visible ops of the
\* element; it goes into their succ and not into the tree.
tx_del_seq(D, t, obj, index, n) ==
    LET q == NthQuery(D, obj, index)
        pred == [i \in 1..Len(q) |-> q[i].op.id]
        op == [change |-> Len(D.history), id |-> <<t.start_op + n, t.actor>>,
               action |-> "del", value |-> 0, obj |-> obj, key |-> 0,
               elem |-> IF q = <<>> THEN HEAD ELSE elemid(q[1].op),
               succ |-> <<>>, pred |-> pred, insert |-> FALSE]
    IN IF q = <<>> THEN [res |-> "InvalidIndex", doc |-> D, ops |-> <<>>]
       ELSE [res |-> "Ok",
             doc |-> [D EXCEPT !.ops =
                        [i \in 1..Len(@) |->
                            IF @[i].obj = obj /\ Contains(pred, @[i].id)
                            THEN add_succ(@[i], op) ELSE @[i]]],
             ops |-> <<op>>]

\* Transaction::set with a list index: a Set that names the visible ops of the
\* element; it goes after the ops of the element.
tx_set_seq(D, t, obj, index, v, n) ==
    LET Put(q) ==
            LET e == elemid(q[1].op)
                op == [change |-> Len(D.history), id |-> <<t.start_op + n, t.actor>>,
                       action |-> "set", value |-> v, obj |-> obj, key |-> 0,
                       elem |-> e, succ |-> <<>>,
                       pred |-> [i \in 1..Len(q) |-> q[i].op.id], insert |-> FALSE]
                at == {i \in 1..Len(D.ops) : D.ops[i].obj = obj /\ elemid(D.ops[i]) = e}
                end == CHOOSE i \in at : \A j \in at : j <= i
                marked == [i \in 1..Len(D.ops) |->
                              IF D.ops[i].obj = obj /\ Contains(op.pred, D.ops[i].id)
                              THEN add_succ(D.ops[i], op) ELSE D.ops[i]]
            IN [res |-> "Ok", doc |-> [D EXCEPT !.ops = InsertAt(marked, end + 1, op)],
                ops |-> <<op>>]
    IN IF NthQuery(D, obj, index) = <<>>
       THEN [res |-> "InvalidIndex", doc |-> D, ops |-> <<>>]
       ELSE Put(NthQuery(D, obj, index))

\* Transaction::splice: del deletes at pos, then the values are inserted from
\* pos on; the first failure ends it, with the ops made so far.
RECURSIVE tx_splice(_, _, _, _, _, _, _)
tx_splice(D, t, obj, pos, del, vals, n) ==
    LET After(r, rest) ==
            [res |-> rest.res, doc |-> rest.doc, ops |-> r.ops \o rest.ops]
        Step(r, p, k, vs) ==
            IF r.res # "Ok" THEN r
            ELSE After(r, tx_splice(r.doc, t, obj, p, k, vs, n + 1))
    IN IF del > 0
       THEN Step(tx_del_seq(D, t, obj, pos, n), pos, del - 1, vals)
       ELSE IF vals # <<>>
       THEN Step(tx_insert(D, t, obj, pos, Head(vals), n), pos + 1, 0, Tail(vals))
       ELSE [res |-> "Ok", doc |-> D, ops |-> <<>>]

\* A sequence without the elements that are x.
RECURSIVE Without(_, _)
Without(s, x) ==
    IF s = <<>> THEN <<>>
    ELSE IF Head(s) = x THEN Without(Tail(s), x)
    ELSE <<Head(s)>> \o Without(Tail(s), x)

\* Transaction::rollback: each op of the transaction, the last first, leaves
\* the succ of the ops it named and the tree.
RECURSIVE tx_rollback(_, _)
tx_rollback(D, ops) ==
    IF ops = <<>> THEN D
    ELSE LET op == ops[Len(ops)]
             undone == [i \in 1..Len(D.ops) |->
                           [D.ops[i] EXCEPT !.succ = Without(@, op.id)]]
             kept == {i \in 1..Len(undone) : undone[i].id # op.id}
         IN tx_rollback([D EXCEPT !.ops = [k \in 1..Cardinality(kept) |->
                              undone[CHOOSE i \in kept :
                                  Cardinality({j \in kept : j < i}) = k - 1]]],
                        SubSeq(ops, 1, Len(ops) - 1))

\* The op of a transaction as the change holds it, with the actors' bytes.
export_op(D, op) ==
    [action |-> op.action, value |-> op.value,
     obj |-> IF op.obj = root THEN root ELSE id_to_exid(D, op.obj),
     key |-> IF op.obj = root THEN D.props[op.key + 1] ELSE 0,
     elem |-> IF op.elem = HEAD THEN HEAD ELSE id_to_exid(D, op.elem),
     pred |-> [i \in 1..Len(op.pred) |-> id_to_exid(D, op.pred[i])],
     insert |-> op.insert]

\* ----------------------------------------------------------------- actions
Call(op, d, b, res, err, ret) ==
    [op |-> op, d |-> d, b |-> b, res |-> res, err |-> err, ret |-> ret]

\* Automerge::set_actor
SetActor(d, a) ==
    /\ doc[d].actor # lookup(doc[d].actors, a)
    /\ doc' = [doc EXCEPT ![d].actors = cache(@, a),
                          ![d].actor = lookup(cache(doc[d].actors, a), a)]
    /\ last' = Call("set_actor", d, 0, "Ok", <<>>, <<>>)
    /\ UNCHANGED <<world, authors, disk>>

\* Automerge::set(ROOT, prop, v): a transaction of one set, committed.
LocalSet(d, prop, v) ==
    LET t == tx(doc[d])
        ops == tx_set(t.doc, t, prop, v)
        content == tx_change(t.doc, t, ops)
        same == SameContent(content)
        n == IF same # {} THEN CHOOSE m \in same : TRUE ELSE Len(world) + 1
    IN \E change \in {WithHash(content, HashAt(n))} :
       /\ ~t.panic
       /\ same # {} \/ Len(world) < MaxChanges
       /\ world' = IF same # {} THEN world ELSE Append(world, change)
       /\ doc' = [doc EXCEPT ![d] = tx_commit(t.doc, change)]
       /\ last' = Call("set", d, 0, "Ok", <<>>, <<>>)
       /\ authors' = authors \cup {d}
       /\ UNCHANGED disk

\* Automerge::apply_changes with a batch of changes made so far
ApplyChanges(d, hs) ==
    LET changes == [i \in 1..Len(hs) |-> ChangeOf(hs[i])]
    IN \E r \in {apply_changes(doc[d], changes)} :
       /\ Len(r.doc.queue) <= MaxQueue
       /\ doc' = [doc EXCEPT ![d] = r.doc]
       /\ last' = Call("apply_changes", d, 0, r.res, r.err, <<>>)
       /\ UNCHANGED <<world, authors, disk>>

\* Automerge::merge
Merge(d, b) ==
    \E r \in {apply_changes(doc[d], get_changes_added(doc[d], doc[b]))} :
       /\ d # b
       /\ Len(r.doc.queue) <= MaxQueue
       /\ doc' = [doc EXCEPT ![d] = r.doc]
       /\ last' = Call("merge", d, b, r.res, r.err,
                       IF r.res = "Ok" THEN get_heads(r.doc) ELSE <<>>)
       /\ UNCHANGED <<world, authors, disk>>

\* Change::raw_bytes, encode_document and Change::load_document: bytes are a
\* sequence of chunks; the chunk of a change stands for the change it decodes
\* to, the chunk of a document for the changes it was given, in their order.
raw_bytes(change) == [chunk |-> "change", digests |-> <<change.hash>>]

encode_document(changes) ==
    [chunk |-> "document", digests |-> [i \in 1..Len(changes) |-> changes[i].hash]]

RECURSIVE load_document(_)
load_document(data) ==
    IF data = <<>> THEN <<>>
    ELSE [i \in 1..Len(data[1].digests) |-> ChangeOf(data[1].digests[i])]
            \o load_document(Tail(data))

\* Automerge::load_incremental with the bytes of changes made so far: it
\* returns the number of ops the op set has grown by.
LoadIncremental(d, hs) ==
    LET data == [i \in 1..Len(hs) |-> raw_bytes(ChangeOf(hs[i]))]
        start == Len(doc[d].ops)
    IN \E r \in {apply_changes(doc[d], load_document(data))} :
       /\ Len(r.doc.queue) <= MaxQueue
       /\ doc' = [doc EXCEPT ![d] = r.doc]
       /\ last' = Call("load_incremental", d, 0, r.res, r.err,
                       IF r.res = "Ok" THEN <<Len(r.doc.ops) - start>> ELSE <<>>)
       /\ UNCHANGED <<world, authors, disk>>

\* Automerge::new
new ==
    [queue |-> <<>>, history |-> <<>>, history_index |-> <<>>,
     states |-> <<>>, deps |-> {}, saved |-> <<>>,
     ops |-> <<>>, actors |-> <<>>, props |-> <<>>,
     actor |-> NoIdx, max_op |-> 0]

\* Automerge::load: Err leaves no document.
load(data) == apply_changes(new, load_document(data))

\* save leaving saved as it was.
save_reads_only(D) ==
    [doc |-> D, bytes |-> <<encode_document(D.history)>>]

\* Automerge::save: the document after the call and the bytes returned.
save(D) ==
    [doc |-> [D EXCEPT !.saved = get_heads(D)],
     bytes |-> <<encode_document(D.history)>>]

\* save_incremental taking the changes since the heads, not since saved.
save_incremental_heads(D) ==
    LET changes == get_changes(D, get_heads(D))
        bytes == [i \in 1..Len(changes) |-> raw_bytes(changes[i])]
    IN [doc |-> IF bytes # <<>> THEN [D EXCEPT !.saved = get_heads(D)] ELSE D,
        bytes |-> bytes]

\* save_incremental leaving saved as it was.
save_incremental_keeps_saved(D) ==
    LET changes == get_changes(D, D.saved)
        bytes == [i \in 1..Len(changes) |-> raw_bytes(changes[i])]
    IN [doc |-> D, bytes |-> bytes]

\* Automerge::save_incremental: the document after the call and the bytes
\* returned.
save_incremental(D) ==
    LET changes == get_changes(D, D.saved)
        bytes == [i \in 1..Len(changes) |-> raw_bytes(changes[i])]
    IN [doc |-> IF bytes # <<>> THEN [D EXCEPT !.saved = get_heads(D)] ELSE D,
        bytes |-> bytes]

\* fork returning the clone as it is.
fork_clone(D) == D

\* Automerge::fork
fork(D) == [D EXCEPT !.actor = NoIdx]

\* The random bytes uuid::Uuid::new_v4 gives document d: no other document
\* and no set_actor has them.
Uuid(d) == 2 + d

\* Automerge::get_actor_index with random_actor: the document after the call.
get_actor_index(D, uuid) ==
    IF D.actor # NoIdx THEN D
    ELSE [D EXCEPT !.actors = cache(@, uuid),
                   !.actor = lookup(cache(D.actors, uuid), uuid)]

\* The actions that are a set of an object, and those that are a set.
Makes == {"make_list", "make_map"}

Sets == {"set", "set_counter"} \cup Makes

\* set, inc and del returning no object id whatever the value is.
Mutate_returns_none(d, action, prop, v, max) ==
    LET t == tx(get_actor_index(doc[d], Uuid(d)))
        ops == tx_op(t.doc, t, action, prop, v)
        content == tx_change(t.doc, t, ops)
        same == SameContent(content)
        n == IF same # {} THEN CHOOSE m \in same : TRUE ELSE Len(world) + 1
    IN \E change \in {WithHash(content, HashAt(n))} :
       /\ ~t.panic
       /\ same # {} \/ Len(world) < max
       /\ world' = IF same # {} THEN world ELSE Append(world, change)
       /\ doc' = [doc EXCEPT ![d] = tx_commit(t.doc, change)]
       /\ last' = Call(IF action \in Sets THEN "set" ELSE action,
                       d, 0, "Ok", <<>>, <<>>)
       /\ authors' = authors \cup {d}
       /\ UNCHANGED disk

\* Automerge::set, inc and del on the root map: a transaction of one
\* operation, committed; the set of an object returns its id.  At most max
\* changes are ever made.
Mutate(d, action, prop, v, max) ==
    LET t == tx(get_actor_index(doc[d], Uuid(d)))
        ops == tx_op(t.doc, t, action, prop, v)
        content == tx_change(t.doc, t, ops)
        same == SameContent(content)
        n == IF same # {} THEN CHOOSE m \in same : TRUE ELSE Len(world) + 1
    IN \E change \in {WithHash(content, HashAt(n))} :
       /\ ~t.panic
       /\ same # {} \/ Len(world) < max
       /\ world' = IF same # {} THEN world ELSE Append(world, change)
       /\ doc' = [doc EXCEPT ![d] = tx_commit(t.doc, change)]
       /\ last' = Call(IF action \in Sets THEN "set" ELSE action,
                       d, 0, "Ok", <<>>,
                       IF action \in Makes
                       THEN <<ExId(t.start_op, t.doc.actors[t.actor + 1], t.actor)>>
                       ELSE <<>>)
       /\ authors' = authors \cup {d}
       /\ UNCHANGED disk

Init ==
    /\ doc = [d \in Docs |-> new_with_actor_id(d)]
    /\ world = <<>>
    /\ last = Call("new", 0, 0, "Ok", <<>>, <<>>)
    /\ authors = {}
    /\ disk = [d \in Docs |-> [started |-> FALSE, data |-> <<>>]]

Next ==
    \/ \E d \in Docs, a \in ActorIds : SetActor(d, a)
    \/ \E d \in Docs, prop \in PropNames, v \in Vals : LocalSet(d, prop, v)
    \/ \E d \in Docs, hs \in SeqsUpTo(WorldHashes, MaxBatch) : ApplyChanges(d, hs)
    \/ \E d \in Docs, hs \in SeqsUpTo(WorldHashes, MaxBatch) : LoadIncremental(d, hs)
    \/ \E d \in Docs, b \in Docs : Merge(d, b)

Spec == Init /\ [][Next]_vars

\* Automerge::fork: document b becomes the fork of document d; nothing has been
\* written for it.
Fork(d, b) ==
    /\ d # b
    /\ doc' = [doc EXCEPT ![b] = fork(doc[d])]
    /\ disk' = [disk EXCEPT ![b] = [started |-> FALSE, data |-> <<>>]]
    /\ last' = Call("fork", d, b, "Ok", <<>>, <<>>)
    /\ UNCHANGED <<world, authors>>

\* Automerge::save: the bytes replace what was written for the document.
Save(d) ==
    \E r \in {save(doc[d])} :
       /\ doc' = [doc EXCEPT ![d] = r.doc]
       /\ disk' = [disk EXCEPT ![d] = [started |-> TRUE, data |-> r.bytes]]
       /\ last' = Call("save", d, 0, "Ok", <<>>, r.bytes)
       /\ UNCHANGED <<world, authors>>

\* Automerge::save_incremental after a save: the bytes are appended to what
\* was written for the document.
SaveIncremental(d) ==
    \E r \in {save_incremental(doc[d])} :
       /\ disk[d].started
       /\ doc' = [doc EXCEPT ![d] = r.doc]
       /\ disk' = [disk EXCEPT ![d].data = @ \o r.bytes]
       /\ last' = Call("save_incremental", d, 0, "Ok", <<>>, r.bytes)
       /\ UNCHANGED <<world, authors>>

\* Automerge::import of a string; b is the string.
Import(d, s) ==
    \E r \in {import(doc[d], s)} :
       /\ last' = Call("import", d, s, r.res, <<>>, r.ret)
       /\ UNCHANGED <<doc, world, authors, disk>>

\* The documents under set_actor and import.
NextImport ==
    \/ \E d \in Docs, a \in ActorIds : SetActor(d, a)
    \/ \E d \in Docs, s \in Strings \cup {RootStr} : Import(d, s)

SpecImport == Init /\ [][NextImport]_vars

\* The documents under local writes, merges and forks; document 1 is saved.
NextSave ==
    \/ \E d \in Docs : Mutate(d, "set", 1, d, MaxChanges)
    \/ \E d \in Docs, b \in Docs : Merge(d, b)
    \/ \E d \in Docs, b \in Docs : Fork(d, b)
    \/ Save(1)
    \/ SaveIncremental(1)

SpecSave == Init /\ [][NextSave]_vars

\* Document 1 writes, document 2 is handed the changes in any order, and
\* either is replaced by a fork of the other.
NextFork ==
    \/ \E v \in OpVals : Mutate(1, "set", 1, v, MaxChanges)
    \/ \E hs \in SeqsUpTo(WorldHashes, MaxBatch) : ApplyChanges(2, hs)
    \/ \E d \in Docs, b \in Docs : Fork(d, b)

SpecFork == Init /\ [][NextFork]_vars

\* A writer and a replica of it.  Document 1 sets a counter at key 1 and then
\* increments it, under one actor or another; document 2 is handed the changes
\* in any order and any number of times.
WriterSets ==
    Len(world) = 0 /\ Mutate(1, "set_counter", 1, 1, MaxSyncChanges)

WriterIncs ==
    Len(world) > 0 /\ Mutate(1, "inc", 1, 2, MaxSyncChanges)

WriterSetsActor(a) ==
    Len(world) \in {2, 4} /\ SetActor(1, a)

NextSync ==
    \/ WriterSets
    \/ WriterIncs
    \/ \E a \in ActorIds : WriterSetsActor(a)
    \/ \E hs \in SeqsUpTo(WorldHashes, MaxBatch) : ApplyChanges(2, hs)

SpecSync == Init /\ [][NextSync]_vars

\* The documents under set, inc and del at one key of the root map, and
\* merges.  inc is called on a key that reads as a counter and del on a key
\* that has a value; document 2 makes no object and deletes nothing.
OpInputs(d) ==
    {<<"set", 1>>, <<"set_counter", 1>>, <<"inc", 2>>}
        \cup IF d = 1 THEN {<<"del", 0>>, <<"make_list", 0>>} ELSE {}

CanCall(D, action) ==
    LET vs == values(D, 1)
    IN /\ action = "inc" => \E i \in 1..Len(vs) : vs[i][1][1] = "counter"
       /\ action = "del" => vs # <<>>

NextOps ==
    \/ \E d \in Docs : \E in \in OpInputs(d) :
          CanCall(doc[d], in[1]) /\ Mutate(d, in[1], 1, in[2], MaxOpsChanges)
    \/ \E d \in Docs, b \in Docs : Merge(d, b)

SpecOps == Init /\ [][NextOps]_vars

\* The match of a shortcut committing whatever the transaction returned.
shortcut_commits(r, change) == update_history(r.doc, change)

\* Automerge::insert, del and splice, the match on what the transaction
\* returned: commit for Ok, rollback for Err.  r is the document with the ops
\* of the transaction applied, the ops, and the result.
shortcut(r, change) ==
    IF r.res = "Ok" THEN update_history(r.doc, change)
    ELSE tx_rollback(r.doc, r.ops)

\* A mutation shortcut on a list: t is the transaction and r what the
\* operation on it returned.
ListCall(d, name, t, r, max) ==
    LET content == tx_change(r.doc, t,
                             [i \in 1..Len(r.ops) |-> export_op(r.doc, r.ops[i])])
        same == SameContent(content)
        n == IF same # {} THEN CHOOSE m \in same : TRUE ELSE Len(world) + 1
    IN \E change \in {WithHash(content, HashAt(n))} :
       /\ ~t.panic
       /\ r.res = "Ok" => (same # {} \/ Len(world) < max)
       /\ world' = IF r.res = "Ok" /\ same = {} THEN Append(world, change)
                   ELSE world
       /\ doc' = [doc EXCEPT ![d] = shortcut(r, change)]
       /\ last' = Call(name, d, 0, r.res, <<>>, <<>>)
       /\ authors' = IF r.res = "Ok" THEN authors \cup {d} ELSE authors
       /\ UNCHANGED disk

\* What the operation of a shortcut returns on the transaction: the error of
\* exid_to_obj, or what tx_splice returns.
OnList(t, obj, pos, del, vals) ==
    LET o == exid_to_obj(t.doc, obj)
    IN IF o.res # "Ok" THEN [res |-> o.res, doc |-> t.doc, ops |-> <<>>]
       ELSE tx_splice(t.doc, t, o.ret, pos, del, vals, 0)

\* Automerge::insert
ListInsert(d, obj, index, v, max) ==
    LET t == tx(get_actor_index(doc[d], Uuid(d)))
    IN ListCall(d, "insert", t, OnList(t, obj, index, 0, <<v>>), max)

\* Automerge::del with a list index
ListDel(d, obj, index, max) ==
    LET t == tx(get_actor_index(doc[d], Uuid(d)))
    IN ListCall(d, "del", t, OnList(t, obj, index, 1, <<>>), max)

\* Automerge::splice
ListSplice(d, obj, pos, del, vals, max) ==
    LET t == tx(get_actor_index(doc[d], Uuid(d)))
    IN ListCall(d, "splice", t, OnList(t, obj, pos, del, vals), max)

\* Automerge::set with a list index
ListSet(d, obj, index, v, max) ==
    LET t == tx(get_actor_index(doc[d], Uuid(d)))
        o == exid_to_obj(t.doc, obj)
    IN ListCall(d, "set", t,
                IF o.res # "Ok" THEN [res |-> o.res, doc |-> t.doc, ops |-> <<>>]
                ELSE tx_set_seq(t.doc, t, o.ret, index, v, 0),
                max)

\* The ids of the lists a document holds, and the id of an object of an
\* actor the documents of SpecList have not seen.
ListIds(D) ==
    {ExId(D.ops[i].id[1], D.actors[D.ops[i].id[2] + 1], D.ops[i].id[2]) :
        i \in {j \in 1..Len(D.ops) : D.ops[j].action = "make_list"}}

Foreign == ExId(1, 2, 0)

ListInputs(D) ==
    {<<"set_counter", 1>>, <<"del", 0>>}
        \cup IF Cardinality(ListIds(D)) < MaxLists THEN {<<"make_list", 0>>}
             ELSE {}

\* The objects and indices the calls on a list are given.
ListTargets(D) == (ListIds(D) \X (0..MaxIndex)) \cup {<<Foreign, 0>>}

\* Document 1 under set and del at a key of the root map and insert, del and
\* splice on the lists it made and on an object it does not know.
NextList ==
    \/ \E in \in ListInputs(doc[1]) :
          CanCall(doc[1], in[1]) /\ Mutate(1, in[1], 1, in[2], MaxListChanges)
    \/ \E at \in ListTargets(doc[1]), v \in OpVals :
          ListInsert(1, at[1], at[2], v, MaxListChanges)
    \/ \E at \in ListTargets(doc[1]) :
          ListDel(1, at[1], at[2], MaxListChanges)
    \/ \E at \in ListTargets(doc[1]) :
          ListSplice(1, at[1], at[2], 2, <<1>>, MaxListChanges)

SpecList == Init /\ [][NextList]_vars

\* Document 1 makes a list and calls insert, set and del on it.
MakesList ==
    ListIds(doc[1]) = {} /\ Mutate(1, "make_list", 1, 0, MaxTreeChanges)

TreeTargets == ListIds(doc[1]) \X (0..MaxTreeIndex)

NextTree ==
    \/ MakesList
    \/ \E at \in TreeTargets, v \in OpVals :
          ListInsert(1, at[1], at[2], v, MaxTreeChanges)
    \/ \E at \in TreeTargets, v \in OpVals :
          ListSet(1, at[1], at[2], v, MaxTreeChanges)
    \/ \E at \in TreeTargets : ListDel(1, at[1], at[2], MaxTreeChanges)

SpecTree == Init /\ [][NextTree]_vars

\* ------------------------------------------------------------ the claims
AllHashes == 1..(MaxChanges + 1)

HistHashes(D) == Hashes(D.history)

Known(D) == HistHashes(D) \cup Hashes(D.queue)

Count(s, x) == Cardinality({i \in 1..Len(s) : s[i] = x})

\* The changes of history made by an actor.
CountByActor(D, a) == Cardinality({i \in 1..Len(D.history) : D.history[i].actor = a})

\* No two changes made so far have the same actor and seq.
NoEquivocation ==
    \A m, n \in 1..Len(world) :
        (world[m].actor = world[n].actor /\ world[m].seq = world[n].seq) => m = n

ApplyCalls == {"apply_changes", "load_incremental", "merge"}

\* C2: in every document, every dep of the change at a position of history is
\* the hash of a change at an earlier position.
CausalReadiness ==
    \A d \in Docs : \A i \in 1..Len(doc[d].history) :
        \A h \in Range(doc[d].history[i].deps) :
            \E j \in 1..(i - 1) : doc[d].history[j].hash = h

\* A document was given, by apply_changes, a change that has two deps.
CausalReadinessWitness ==
    /\ last.op \in ApplyCalls
    /\ \E i \in 1..Len(doc[last.d].history) :
          /\ Len(doc[last.d].history[i].deps) >= 2
          /\ doc[last.d].history[i].actor # doc[last.d].actors[doc[last.d].actor + 1]

\* C3: get_heads returns exactly the hashes of the changes in history that
\* are in the deps of no change in history.
FrontierCorrect ==
    \A d \in Docs :
        Range(get_heads(doc[d])) =
            {h \in HistHashes(doc[d]) :
                \A i \in 1..Len(doc[d].history) : h \notin Range(doc[d].history[i].deps)}

\* C4: every hash is in history at most once and history_index has the
\* position of the only change with the hash.
AppliedOnce ==
    \A d \in Docs : \A i \in 1..Len(doc[d].history) :
        /\ \A j \in 1..Len(doc[d].history) :
              doc[d].history[i].hash = doc[d].history[j].hash => i = j
        /\ doc[d].history_index[doc[d].history[i].hash] = i - 1

\* Every change the document holds came through apply_changes, or the document
\* has applied every change it holds.
GivenAll(d) == d \notin authors \/ doc[d].queue = <<>>

\* C1: two documents that were given the same changes have the same changes
\* in history, the same heads and the same reads.
Convergence ==
    \A a, b \in Docs :
        (NoEquivocation /\ GivenAll(a) /\ GivenAll(b) /\ Known(doc[a]) = Known(doc[b])) =>
            /\ HistHashes(doc[a]) = HistHashes(doc[b])
            /\ get_heads(doc[a]) = get_heads(doc[b])
            /\ keys(doc[a]) = keys(doc[b])
            /\ length(doc[a]) = length(doc[b])
            /\ \A prop \in PropNames :
                  /\ values(doc[a], prop) = values(doc[b], prop)
                  /\ value(doc[a], prop) = value(doc[b], prop)

Batches == SeqsUpTo(WorldHashes, MaxBatch)

ChangesOf(hs) == [i \in 1..Len(hs) |-> ChangeOf(hs[i])]

\* C5: apply_changes given a change that is not in history and whose seq is
\* at most the number of changes of its actor in history returns
\* DuplicateSeqNumber(seq, actor) and leaves history and queue as they were;
\* whatever the batch, the change that is refused is not in history afterwards
\* and the queue holds no copy of it that the earlier changes of the batch did
\* not put there.
DuplicateSeqRefused ==
    \A d \in Docs :
        /\ \A n \in 1..Len(world) :
              LET c == world[n]
                  r == apply_changes(doc[d], <<c>>)
              IN (c.hash \notin HistHashes(doc[d])
                  /\ c.seq <= CountByActor(doc[d], c.actor)) =>
                     /\ r.res = "DuplicateSeqNumber"
                     /\ r.err = <<c.seq, c.actor>>
                     /\ r.doc.history = doc[d].history
                     /\ r.doc.queue = doc[d].queue
        /\ \A hs \in Batches :
              LET r == apply_changes(doc[d], ChangesOf(hs))
              IN r.res = "DuplicateSeqNumber" =>
                    LET c == ChangeOf(hs[r.at])
                    IN /\ r.err = <<c.seq, c.actor>>
                       /\ c.hash \notin HistHashes(r.doc)
                       /\ Count(r.doc.queue, c) <=
                             Count(doc[d].queue, c) + Count(SubSeq(hs, 1, r.at - 1), c.hash)

\* apply_changes has refused a change.
DuplicateSeqWitness ==
    /\ last.op = "apply_changes"
    /\ last.res = "DuplicateSeqNumber"
    /\ \E n \in 1..Len(world) :
          /\ last.err = <<world[n].seq, world[n].actor>>
          /\ world[n].hash \notin Known(doc[last.d])

\* A queued change of the document has a dep that is not in history.
NoneReady(D) ==
    \A i \in 1..Len(D.queue) :
        \E h \in Range(D.queue[i].deps) : h \notin HistHashes(D)

MergeConverges ==
    [][(last'.op = "merge" /\ last'.res = "Ok") =>
          /\ HistHashes(doc[last'.b]) \subseteq HistHashes(doc'[last'.d])
          /\ last'.ret = get_heads(doc'[last'.d])
          /\ doc'[last'.b] = doc[last'.b]
          /\ (last.op = "merge" /\ last.res = "Ok"
              /\ last.d = last'.b /\ last.b = last'.d) =>
                /\ HistHashes(doc'[last'.d]) = HistHashes(doc'[last'.b])
                /\ get_heads(doc'[last'.d]) = get_heads(doc'[last'.b])]_vars

\* The hashes reachable from the hashes S through the deps of the changes in
\* history, S included.
RECURSIVE Closure(_, _)
Closure(D, S) ==
    LET next == S \cup UNION {Range(D.history[i].deps) :
                                 i \in {j \in 1..Len(D.history) : D.history[j].hash \in S}}
    IN IF next = S THEN S ELSE Closure(D, next)

HaveDepsInputs == SeqsUpTo(AllHashes, MaxHaveDeps)

\* C8: get_changes(have_deps) is history without the ancestor closure of
\* have_deps, in history order, and the fast path, when it answers, answers as
\* the slow path does.
GetChangesExact ==
    \A d \in Docs : \A have_deps \in HaveDepsInputs :
        LET D == doc[d]
            closure == Closure(D, Range(have_deps))
            unseen(change) == change.hash \notin closure
            fast == get_changes_fast(D, have_deps)
        IN /\ get_changes(D, have_deps) = SelectSeq(D.history, unseen)
           /\ fast.some => fast.changes = get_changes_slow(D, have_deps)

DepsClosed(D) ==
    \A i \in 1..Len(D.history) : Range(D.history[i].deps) \subseteq HistHashes(D)

Perms(s) ==
    {[i \in 1..Len(s) |-> s[f[i]]] :
        f \in {g \in [1..Len(s) -> 1..Len(s)] :
                  \A i, j \in 1..Len(s) : g[i] = g[j] => i = j}}

\* C9: a.get_changes_added(b) is the changes of b's history that are not in
\* a's history, each once, and a.apply_changes applies them all in whatever
\* order they are given.
ChangesAddedExact ==
    \A a, b \in Docs :
        (a # b /\ NoEquivocation /\ DepsClosed(doc[a]) /\ DepsClosed(doc[b])) =>
            LET added == get_changes_added(doc[a], doc[b])
            IN /\ Hashes(added) = HistHashes(doc[b]) \ HistHashes(doc[a])
               /\ \A i, j \in 1..Len(added) : added[i].hash = added[j].hash => i = j
               /\ \A given \in Perms(added) :
                     LET r == apply_changes(doc[a], given)
                     IN r.res = "Ok" /\ Hashes(added) \subseteq HistHashes(r.doc)

\* C10: get_missing_deps(heads) is, ascending and without repetition, the
\* hashes in the deps of a queued change or in heads that are neither in
\* history nor the hash of a queued change.
MissingDepsExact ==
    \A d \in Docs : \A heads \in HaveDepsInputs :
        LET D == doc[d]
            r == get_missing_deps(D, heads)
        IN /\ \A i \in 1..(Len(r) - 1) : r[i] < r[i + 1]
           /\ Range(r) =
                 {h \in AllHashes :
                     /\ \/ \E i \in 1..Len(D.queue) : Contains(D.queue[i].deps, h)
                        \/ Contains(heads, h)
                     /\ ~\E i \in 1..Len(D.history) : D.history[i].hash = h
                     /\ ~\E i \in 1..Len(D.queue) : D.queue[i].hash = h}

\* A queued change waits for a change that is queued too, and for one that
\* is nowhere in the document.
MissingDepsWitness ==
    \E d \in Docs :
        /\ \E i, j \in 1..Len(doc[d].queue) :
              Contains(doc[d].queue[i].deps, doc[d].queue[j].hash)
        /\ get_missing_deps(doc[d], <<>>) # <<>>
        /\ Len(get_missing_deps(doc[d], <<3, 3>>)) = Len(get_missing_deps(doc[d], <<>>)) + 1

\* The hash of the most recent change of the document's actor in history;
\* <<>> when history has none.
LastOwn(D) ==
    LET mine == {i \in 1..Len(D.history) : D.history[i].actor = D.actors[D.actor + 1]}
    IN IF mine = {} THEN <<>>
       ELSE <<D.history[CHOOSE i \in mine : \A j \in mine : j <= i].hash>>

\* C13 as claimed: the deps of a transaction are the heads of the document.
TxDepsAreHeads ==
    \A d \in Docs : tx(doc[d]).deps = get_heads(doc[d])

\* C13: the deps of a transaction are the heads of the document, followed by
\* the hash of the actor's most recent change when that change is in history
\* and not among the heads.
TxDepsAreHeadsAndLast ==
    \A d \in Docs :
        LET own == LastOwn(doc[d])
            heads == get_heads(doc[d])
        IN tx(doc[d]).deps =
              IF own # <<>> /\ ~Contains(heads, own[1]) THEN Append(heads, own[1])
              ELSE heads

\* A change made elsewhere has taken the place of the actor's last change in
\* the heads of a document.
TxDepsWitness ==
    /\ last.op \in ApplyCalls
    /\ LastOwn(doc[last.d]) # <<>>
    /\ ~Contains(get_heads(doc[last.d]), LastOwn(doc[last.d])[1])
    /\ Len(tx(doc[last.d]).deps) = Len(get_heads(doc[last.d])) + 1

\* C14: a transaction with seq > 1 is opened without a failure of get_hash and
\* has the hash of the actor's most recent change of history in its deps.
TxHasLastOwn ==
    \A d \in Docs :
        LET t == tx(doc[d])
        IN t.seq > 1 =>
              /\ ~t.panic
              /\ LastOwn(doc[d]) # <<>>
              /\ Contains(t.deps, LastOwn(doc[d])[1])

\* A document has committed a change and opens its next transaction.
TxHasLastOwnWitness ==
    /\ last.op = "set"
    /\ tx(doc[last.d]).seq > 1
    /\ Len(doc[last.d].history) > 1

\* The changes in the history of D that hold an op at key k with this action.
OpsAt(D, k, action) ==
    {h \in HistHashes(D) :
        \E i \in 1..Len(ChangeOf(h).ops) :
            ChangeOf(h).ops[i].key = k /\ ChangeOf(h).ops[i].action = action}

\* The sum of the values the changes of S write; each holds one op.
RECURSIVE SumOfOps(_)
SumOfOps(S) ==
    IF S = {} THEN 0
    ELSE LET h == CHOOSE x \in S : TRUE
         IN ChangeOf(h).ops[1].value + SumOfOps(S \ {h})

\* Key k of D was set to a counter once and then only incremented: no plain
\* set, no delete, and every increment names the counter.
CounterOnly(D, k) ==
    /\ Cardinality(OpsAt(D, k, "set_counter")) = 1
    /\ OpsAt(D, k, "set") = {} /\ OpsAt(D, k, "del") = {}
    /\ LET c == ChangeOf(CHOOSE h \in OpsAt(D, k, "set_counter") : TRUE)
       IN \A h \in OpsAt(D, k, "inc") :
             ChangeOf(h).ops[1].pred = << <<c.start_op, c.actor>> >>

\* C12: a key set to a counter and then only incremented reads as exactly one
\* value, the counter at the initial value plus the sum of the increments.
CounterAccumulates ==
    \A d \in Docs, k \in OpProps :
        CounterOnly(doc[d], k) =>
            LET c == ChangeOf(CHOOSE h \in OpsAt(doc[d], k, "set_counter") : TRUE)
                total == c.ops[1].value + SumOfOps(OpsAt(doc[d], k, "inc"))
            IN values(doc[d], k) =
                   << << <<"counter", total>>, <<c.start_op, c.actor>> >> >>


\* What the reads on the root map return on a document now, at heads, and on
\* a document that holds nothing.
ReadsNow(D) ==
    [keys |-> keys(D), length |-> length(D),
     values |-> [k \in OpProps |-> values(D, k)],
     value |-> [k \in OpProps |-> value(D, k)]]

ReadsAt(D, heads) ==
    [keys |-> keys_at(D, heads), length |-> length_at(D, heads),
     values |-> [k \in OpProps |-> values_at(D, k, heads)],
     value |-> [k \in OpProps |-> value_at(D, k, heads)]]

ReadsEmpty ==
    [keys |-> <<>>, length |-> 0,
     values |-> [k \in OpProps |-> <<>>],
     value |-> [k \in OpProps |-> <<>>]]

\* C11: after any call, the reads at the heads the document had before the
\* call return what the plain reads returned before the call, and the reads at
\* no heads return nothing.
HistoricalReads ==
    [][\A d \in Docs :
          /\ ReadsAt(doc'[d], get_heads(doc[d])) = ReadsNow(doc[d])
          /\ ReadsAt(doc'[d], <<>>) = ReadsEmpty]_vars


\* C15: fork returns a document with the history, queue, heads, max_op and op
\* set of the original and no actor, the original is left as it was, and a
\* later call on one document leaves the other as it was.
ForkCopies ==
    [][/\ last'.op = "fork" =>
            LET o == doc[last'.d]
                f == doc'[last'.b]
            IN /\ f.history = o.history /\ f.queue = o.queue
               /\ get_heads(f) = get_heads(o) /\ f.max_op = o.max_op
               /\ f.ops = o.ops
               /\ f.actor = NoIdx
               /\ doc'[last'.d] = o
       /\ last'.op # "fork" =>
            \A b \in Docs \ {last'.d} : doc'[b] = doc[b]]_vars

\* Document 1 is a fork of document 2 taken while a change waited in the queue
\* of document 2, and has since committed a change under a random actor.
ForkWitness ==
    /\ last.op = "set" /\ last.d = 1
    /\ doc[1].actors[doc[1].actor + 1] = Uuid(1)
    /\ doc[1].queue # <<>> /\ doc[2].queue = doc[1].queue
    /\ doc[2].actor # NoIdx
    /\ doc[2].history # doc[1].history


\* A loaded document agrees with D on the heads, the reads and the history
\* queries.
Agrees(r, D) ==
    /\ r.res = "Ok"
    /\ get_heads(r.doc) = get_heads(D)
    /\ ReadsNow(r.doc) = ReadsNow(D)
    /\ get_changes(r.doc, <<>>) = get_changes(D, <<>>)
    /\ get_missing_deps(r.doc, <<>>) = get_missing_deps(D, <<>>)

\* C16: the document loaded from the bytes save returns agrees with the saved
\* document on get_heads, the reads, get_changes and get_missing_deps.
RoundTrip ==
    \A d \in Docs : Agrees(load(save(doc[d]).bytes), doc[d])


\* C17: the bytes of a save followed by the bytes of the later
\* save_incremental calls, and of one more taken now, load to the document
\* that the bytes of a save taken now load to.
IncrementalEquivalence ==
    \A d \in Docs :
        disk[d].started =>
            LET parts == load(disk[d].data \o save_incremental(doc[d]).bytes)
                whole == load(save(doc[d]).bytes)
            IN parts.res = "Ok" /\ parts = whole

\* Document 1 was saved, and a later save_incremental has written a change of
\* another actor that came with a merge.
IncrementalWitness ==
    /\ last.op = "save_incremental" /\ last.d = 1 /\ last.ret # <<>>
    /\ Len(disk[1].data) >= 3
    /\ \E i \in 2..Len(disk[1].data) :
          ChangeOf(disk[1].data[i].digests[1]).actor # doc[1].actors[doc[1].actor + 1]


\* The watermark of document d moves in this step, and d is not replaced by a
\* fork.
SavedMoves(d) ==
    /\ doc'[d].saved # doc[d].saved
    /\ ~(last'.op = "fork" /\ last'.b = d)

\* C18 as stated: save leaves every part of the document as it was, the
\* watermark included, and only save_incremental moves the watermark.
SaveReadsOnly ==
    [][\A d \in Docs :
          /\ (last'.op = "save" /\ last'.d = d) => doc'[d] = doc[d]
          /\ SavedMoves(d) => (last'.op = "save_incremental" /\ last'.d = d)]_vars

\* C18: save leaves every part of the document as it was but the watermark,
\* which it sets to the heads; only save and save_incremental move the
\* watermark.
SaveMovesWatermark ==
    [][\A d \in Docs :
          /\ (last'.op = "save" /\ last'.d = d) =>
                doc'[d] = [doc[d] EXCEPT !.saved = get_heads(doc[d])]
          /\ SavedMoves(d) =>
                (last'.op \in {"save", "save_incremental"} /\ last'.d = d)]_vars

\* A save has just set the watermark of document 1 to the heads of a history
\* of two changes or more; the bytes written are those of the save alone.
SaveWitness ==
    /\ last.op = "save" /\ last.d = 1
    /\ Len(doc[1].history) >= 2
    /\ doc[1].saved = get_heads(doc[1])
    /\ Len(disk[1].data) = 1


\* The ids of objects a caller may pass that are in no document: the ops of
\* the documents make no object.  Actor Uuid(1) is one no document of Spec has
\* seen.
UnknownObjs ==
    {ExId(ctr, actor, idx) : ctr \in 1..(MaxChanges + 1),
                             actor \in ActorIds \cup {Uuid(1)}, idx \in 0..2}

\* C19: every read on an object id that is not in the document returns the
\* empty result and no error.
ReadsNeverFail ==
    \A d \in Docs, obj \in UnknownObjs, k \in PropNames :
        LET D == doc[d]
            heads == get_heads(D)
        IN /\ keys_of(D, obj) = <<>> /\ keys_at_of(D, obj, heads) = <<>>
           /\ length_of(D, obj) = 0 /\ length_at_of(D, obj, heads) = 0
           /\ text(D, obj) = Ok(<<>>) /\ text_at(D, obj, heads) = Ok(<<>>)
           /\ values_of(D, obj, k) = Ok(<<>>)
           /\ values_at_of(D, obj, k, heads) = Ok(<<>>)
           /\ value_of(D, obj, k) = Ok(<<>>)
           /\ value_at_of(D, obj, k, heads) = Ok(<<>>)


\* Export of an op id: the counter in decimal, '@', the actor byte in hex.
OpIdString(ctr, actor) ==
    <<CHOOSE c \in DOMAIN DigitVal : DigitVal[c] = ctr>> \o <<"@", "0">>
        \o <<CHOOSE c \in DOMAIN DigitVal : DigitVal[c] = actor>>

\* C20: import returns Root for "_root", the id for the string of a counter
\* and an actor the document knows, and InvalidOpId(s) for every other
\* string, without faulting.
ImportSurfaces ==
    last.op = "import" =>
        LET s == last.b
            D == doc[last.d]
            ids == {id \in (0..2) \X Range(D.actors) : OpIdString(id[1], id[2]) = s}
        IN IF s = RootStr THEN last.res = "Ok" /\ last.ret = Root
           ELSE IF ids # {}
           THEN \E id \in ids :
                   /\ last.res = "Ok"
                   /\ last.ret = ExId(id[1], id[2], lookup(D.actors, id[2]))
           ELSE last.res = "InvalidOpId" /\ last.ret = s

\* C26: in every document, the n-th entry of states[actor] is the position in
\* history of a change made by that actor whose seq is n.
PerActorState ==
    \A d \in Docs : \A ai \in DOMAIN doc[d].states :
        \A n \in 1..Len(doc[d].states[ai]) :
            LET pos == doc[d].states[ai][n]
            IN /\ pos < Len(doc[d].history)
               /\ doc[d].history[pos + 1].actor = doc[d].actors[ai + 1]
               /\ doc[d].history[pos + 1].seq = n

\* The greatest op counter of the changes of a history, 0 for none.
RECURSIVE MaxOpOf(_)
MaxOpOf(h) ==
    IF h = <<>> THEN 0 ELSE Max(ChangeMaxOp(Head(h)), MaxOpOf(Tail(h)))

\* C27: max_op never decreases; in every document it is the greatest op
\* counter of the changes in history, and the start_op a transaction would get
\* is max_op + 1, above the counter of every op in the op set.
MaxOpIsGreatest ==
    /\ [](\A d \in Docs :
            /\ doc[d].max_op = MaxOpOf(doc[d].history)
            /\ tx(doc[d]).start_op = doc[d].max_op + 1
            /\ \A i \in 1..Len(doc[d].ops) :
                  doc[d].ops[i].id[1] < tx(doc[d]).start_op)
    /\ [][\A d \in Docs : doc'[d].max_op >= doc[d].max_op]_vars

\* A document that wrote an op with counter 2 after a merge was handed changes.
MaxOpWitness ==
    /\ last.op \in ApplyCalls
    /\ doc[last.d].max_op >= 2
    /\ \E i, j \in 1..Len(doc[last.d].history) :
          doc[last.d].history[i].actor # doc[last.d].history[j].actor

\* The ops of the changes in history: their ids and the ids in their pred, as
\* <<counter, actor bytes>>, and what they do.
Applied(D) ==
    UNION {{[id |-> <<D.history[i].start_op + (j - 1), D.history[i].actor>>,
             pred |-> Range(D.history[i].ops[j].pred),
             action |-> D.history[i].ops[j].action,
             value |-> D.history[i].ops[j].value] :
               j \in 1..Len(D.history[i].ops)} : i \in 1..Len(D.history)}

\* C28: for every op X of the op set and every op Y of a change in history,
\* Y.id is in X.succ exactly when X.id is in Y.pred, and X.succ holds no id
\* twice.
PredSuccSymmetry ==
    \A d \in Docs : \A i \in 1..Len(doc[d].ops) :
        LET X == doc[d].ops[i]
        IN /\ \A Y \in Applied(doc[d]) :
                (\E k \in 1..Len(X.succ) : id_to_exid(doc[d], X.succ[k]) = Y.id)
                    <=> id_to_exid(doc[d], X.id) \in Y.pred
           /\ \A k, l \in 1..Len(X.succ) : X.succ[k] = X.succ[l] => k = l

\* Lamport order on ids with the actor's bytes: counter first, then the bytes.
Before(a, b) == a[1] < b[1] \/ (a[1] = b[1] /\ a[2] < b[2])

\* C25: values(ROOT, key) lists the visible ops in Lamport order of their ids,
\* value(ROOT, key) is the last of them, the op with the greatest id, and two
\* documents that hold the same changes have the same winner.
ConflictWinner ==
    /\ \A d \in Docs :
          LET vs == values(doc[d], 1)
          IN /\ \A i, j \in 1..Len(vs) : i < j => Before(vs[i][2], vs[j][2])
             /\ value(doc[d], 1) = IF vs = <<>> THEN <<>> ELSE <<vs[Len(vs)]>>
    /\ \A d, b \in Docs :
          HistHashes(doc[d]) = HistHashes(doc[b])
              => value(doc[d], 1) = value(doc[b], 1)

\* What the ops in the succ of a stored op do.
SuccActions(D, X) ==
    {Y.action : Y \in {Z \in Applied(D) :
                          \E k \in 1..Len(X.succ) : id_to_exid(D, X.succ[k]) = Z.id}}

\* The ids of the ops the prop query reports at the key of the documents.
Reported(D) ==
    LET q == PropQuery(D, 0) IN [i \in 1..Len(q) |-> q[i].op.id]

\* C29: a counter whose succ holds only the ids of Inc ops is reported by the
\* prop query; a counter whose succ holds the id of a Del or of a Set is not,
\* and neither is an Inc that names it.
CounterVisibility ==
    \A d \in Docs : \A i \in 1..Len(doc[d].ops) :
        LET X == doc[d].ops[i]
        IN X.action = "set_counter" =>
              IF SuccActions(doc[d], X) \subseteq {"inc"}
              THEN Contains(Reported(doc[d]), X.id)
              ELSE /\ ~Contains(Reported(doc[d]), X.id)
                   /\ \A j \in 1..Len(doc[d].ops) :
                         (doc[d].ops[j].action = "inc"
                             /\ Contains(doc[d].ops[j].pred, X.id))
                            => ~Contains(Reported(doc[d]), doc[d].ops[j].id)

\* Visibility as the ops and their succ give it: a counter with no Del and no
\* Set in its succ, and any other op but an Inc with an empty succ.
VisibleOp(D, X) ==
    IF X.action = "set_counter" THEN SuccActions(D, X) \subseteq {"inc"}
    ELSE X.action # "inc" /\ X.succ = <<>>

RECURSIVE SumOfValues(_)
SumOfValues(S) ==
    IF S = {} THEN 0
    ELSE LET y == CHOOSE x \in S : TRUE IN y.value + SumOfValues(S \ {y})

\* The value of a visible op: a counter has the Inc ops that name it added.
Accumulated(D, X) ==
    IF X.action = "set_counter"
    THEN X.value + SumOfValues({Y \in Applied(D) :
                        Y.action = "inc" /\ id_to_exid(D, X.id) \in Y.pred})
    ELSE X.value

\* C30: the prop query has one entry for every visible op at the key, with
\* its accumulated value, and none for any other op.
EveryVisible ==
    \A d \in Docs : \A i \in 1..Len(doc[d].ops) :
        LET X == doc[d].ops[i]
            q == PropQuery(doc[d], 0)
            at == {k \in 1..Len(q) : q[k].op.id = X.id}
        IN IF VisibleOp(doc[d], X)
           THEN /\ Cardinality(at) = 1
                /\ \A k \in at : q[k].op.value = Accumulated(doc[d], X)
           ELSE at = {}

\* An object id as the id of the op that made the object.
ExIdPair(x) == <<x.ctr, x.actor>>

\* C22: set(ROOT, key, v) of a scalar returns no object id, the first time
\* (the key then reads as v) and when the key reads as v alone (values is then
\* what it was); set of an object returns the id of the op that makes it, an
\* id no op had before, also when the key holds an object.
SetReturns ==
    [][\A d \in Docs : \A in \in OpInputs(d) :
          (in[1] \in Sets /\ Mutate(d, in[1], 1, in[2], MaxOpsChanges)) =>
             LET before == values(doc[d], 1)
                 after == values(doc'[d], 1)
                 v == op_value([action |-> in[1], value |-> in[2]])
             IN IF in[1] \in Makes
                THEN /\ Len(last'.ret) = 1
                     /\ \A Y \in Applied(doc[d]) : Y.id # ExIdPair(last'.ret[1])
                     /\ \E Y \in Applied(doc'[d]) :
                           Y.id = ExIdPair(last'.ret[1]) /\ Y.action = in[1]
                     /\ exid_to_obj(doc'[d], last'.ret[1])
                           = Ok(<<last'.ret[1].ctr, doc'[d].actor>>)
                ELSE /\ last'.ret = <<>>
                     /\ (Len(before) = 1 /\ before[1][1] = v) => after = before
                     /\ before = <<>> => (Len(after) = 1 /\ after[1][1] = v)]_vars

\* A set returned the id of a list it made at a key that held a list.
SetReturnsWitness ==
    /\ last.op = "set"
    /\ Len(last.ret) = 1
    /\ \E i \in 1..Len(doc[last.d].ops) :
          /\ doc[last.d].ops[i].action = "make_list"
          /\ \E k \in 1..Len(doc[last.d].ops[i].succ) :
                id_to_exid(doc[last.d], doc[last.d].ops[i].succ[k])
                    = ExIdPair(last.ret[1])

\* The list as it reads: the value and the op id at each index.
ListVals(D, obj) ==
    [j \in 1..length_seq(D, obj) |-> value_seq(D, obj, j - 1)]

ReadsOf(D) ==
    <<keys(D), values(D, 1),
      [obj \in ListIds(D) |-> ListVals(D, exid_to_obj(D, obj).ret)]>>

\* C21: a mutation shortcut that returns an error leaves the history, the
\* heads, the queue, max_op and the op set of the document, and what every
\* read returns, as they were before the call.
ErrorRollsBack ==
    [][last'.res # "Ok" =>
          \A d \in Docs :
             /\ doc'[d].history = doc[d].history
             /\ get_heads(doc'[d]) = get_heads(doc[d])
             /\ doc'[d].queue = doc[d].queue
             /\ doc'[d].max_op = doc[d].max_op
             /\ doc'[d].ops = doc[d].ops
             /\ ReadsOf(doc'[d]) = ReadsOf(doc[d])]_vars

\* A splice failed on a list of four elements: at any index up to MaxIndex
\* its first Del had been applied when the second failed.
ErrorRollsBackWitness ==
    /\ last.op = "splice" /\ last.res = "InvalidIndex"
    /\ ListIds(doc[1]) # {}
    /\ \A obj \in ListIds(doc[1]) :
          length_seq(doc[1], exid_to_obj(doc[1], obj).ret) = MaxIndex + 1

\* The last change of document E is one Del, and the op set of E is that of
\* D with the id of the Del added to the succ of the ops it names in pred: no
\* op has come or gone.
DelOnlyMarks(D, E) ==
    LET ch == E.history[Len(E.history)]
        id == <<ch.start_op, E.actor>>
    IN /\ Len(E.history) = Len(D.history) + 1
       /\ Len(ch.ops) = 1 /\ ch.ops[1].action = "del"
       /\ Len(E.ops) = Len(D.ops)
       /\ \A i \in 1..Len(D.ops) :
             E.ops[i] = [D.ops[i] EXCEPT !.succ =
                            IF Contains(ch.ops[1].pred, id_to_exid(D, D.ops[i].id))
                            THEN Append(@, id) ELSE @]

\* del on a key of the root map that has values: the key has no value and is
\* not among the keys, and the Del is only in the succ of the ops it names.
MapDelRemoves ==
    (/\ last'.op = "del"
     /\ values(doc[1], 1) # <<>>
     /\ Mutate(1, "del", 1, 0, MaxListChanges)) =>
        /\ values(doc'[1], 1) = <<>>
        /\ ~Contains(keys(doc'[1]), 1)
        /\ DelOnlyMarks(doc[1], doc'[1])

\* del at an index of a list that has an element there: the list is one
\* shorter, the elements after the index are one index lower, the ones before
\* it stay, and the Del is only in the succ of the ops it names.
ListDelRemoves ==
    \A at \in ListIds(doc[1]) \X (0..MaxIndex) :
       LET o == exid_to_obj(doc[1], at[1]).ret
           n == length_seq(doc[1], o)
       IN (/\ last'.op = "del"
           /\ at[2] < n
           /\ ListDel(1, at[1], at[2], MaxListChanges)) =>
             /\ last'.res = "Ok"
             /\ length_seq(doc'[1], o) = n - 1
             /\ \A j \in (0..(n - 1)) \ {at[2]} :
                   value_seq(doc'[1], o, IF j < at[2] THEN j ELSE j - 1)
                       = value_seq(doc[1], o, j)
             /\ DelOnlyMarks(doc[1], doc'[1])

\* C24: after del on a map key that has visible values the key has no value
\* and is not in keys; after del(list, i) the list is one shorter and the
\* elements after i have moved down by one; the Del op is not stored in the
\* op set, it only adds its id to the succ of the ops it names in pred.
DeleteRemoves == [][MapDelRemoves /\ ListDelRemoves]_vars

\* The changes of history reachable from heads through deps, heads included.
ReachableFrom(D, heads) ==
    {i \in 1..Len(D.history) : D.history[i].hash \in Closure(D, Range(heads))}

\* The greatest element of a non-empty set of numbers.
MaxOf(S) == CHOOSE x \in S : \A y \in S : y <= x

\* The clock the changes of history reachable from heads make: for each actor
\* that has one, the greatest start_op + len - 1 of its reachable changes.
ClockOf(D, heads) ==
    LET reached == ReachableFrom(D, heads)
        actorsOf == {lookup(D.actors, D.history[i].actor) : i \in reached}
    IN [a \in actorsOf |->
           MaxOf({ChangeMaxOp(D.history[i]) :
                     i \in {j \in reached : lookup(D.actors, D.history[j].actor) = a}})]

\* C31: clock_at(heads) returns, for every list of heads, the clock that maps
\* each actor to the greatest start_op + len - 1 of its changes reachable
\* from heads, with no entry for an actor without one; a hash of heads that
\* is not in history adds nothing.
ClockAtExact ==
    \A d \in Docs : \A heads \in HaveDepsInputs :
        LET known(h) == h \in HistHashes(doc[d])
        IN /\ clock_at(doc[d], heads) = ClockOf(doc[d], heads)
           /\ clock_at(doc[d], heads) = clock_at(doc[d], SelectSeq(heads, known))

\* A document where a head reaches changes of two actors, two of them of one
\* actor with different counters, and another hash is not in history.
ClockAtWitness ==
    \E d \in Docs : \E heads \in HaveDepsInputs :
        LET reached == ReachableFrom(doc[d], heads)
        IN /\ \E h \in Range(heads) : h \notin HistHashes(doc[d])
           /\ \E i, j, k \in reached :
                 /\ doc[d].history[i].actor = doc[d].history[j].actor
                 /\ ChangeMaxOp(doc[d].history[i]) < ChangeMaxOp(doc[d].history[j])
                 /\ doc[d].history[k].actor # doc[d].history[i].actor

\* The sets of hashes filter_changes is given.
ChangeSets == {S \in SUBSET AllHashes : Cardinality(S) <= MaxHaveDeps}

\* C32: filter_changes(heads, S) leaves in S the hashes of S that are neither
\* in heads nor reachable from heads through deps, and no other.
FilterChangesExact ==
    \A d \in Docs : \A heads \in HaveDepsInputs : \A S \in ChangeSets :
        filter_changes(doc[d], heads, S) = S \ Closure(doc[d], Range(heads))

\* The ways of splitting n ops over a node and its children: the positions of
\* the elements of the node, with a child that is not empty before, between
\* and after them.
Splits(n) ==
    {S \in SUBSET (2..(n - 1)) : \A s \in S : s + 1 \notin S}

\* The elements of the list in the order of the tree: the ids of its insert
\* ops.
ElemsInOrder(D, obj) ==
    LET ins(op) == op.obj = obj /\ op.insert
        s == SelectSeq(D.ops, ins)
    IN [i \in 1..Len(s) |-> s[i].id]

\* The n-th (0-based) of the elements of the list that have a visible op, and
\* the ops it is read from: its visible ops in the order of the tree, and
\* none when the list has no more than n visible elements.
NthVisible(D, obj, n) ==
    LET vis(e) == e \in visible_elems(D, obj)
        es == SelectSeq(ElemsInOrder(D, obj), vis)
        of(op) == op.obj = obj /\ op.succ = <<>> /\ elemid(op) = es[n + 1]
    IN IF n < Len(es) THEN SelectSeq(D.ops, of) ELSE <<>>

FoundOps(q) == [i \in 1..Len(q) |-> q[i].op]

\* The Nth query on one leaf returns the visible ops of the n-th visible
\* element, and none when there is no such element.
NthOnLeaf ==
    \A obj \in ListIds(doc[1]) : \A n \in 0..(MaxTreeIndex + 2) :
        LET o == exid_to_obj(doc[1], obj).ret
        IN /\ FoundOps(NthQuery(doc[1], o, n)) = NthVisible(doc[1], o, n)
           /\ FoundOps(search_nth(doc[1], o, n, {})) = NthVisible(doc[1], o, n)

\* However the ops are split over a node and its children, the Nth query
\* returns what it returns on one leaf.
NthOnSplits ==
    \A obj \in ListIds(doc[1]) : \A n \in 0..(MaxTreeIndex + 2) :
        \A seps \in Splits(Len(doc[1].ops)) :
            LET o == exid_to_obj(doc[1], obj).ret
            IN FoundOps(search_nth(doc[1], o, n, seps))
                  = FoundOps(search_nth(doc[1], o, n, {}))

\* C33: the Nth query returns the visible ops of the n-th visible element of
\* the list, counted once, and no op when n is not below the number of
\* visible elements; the result is that of a scan of all the ops in order,
\* however the ops are split over the nodes of the tree.
NthIsLinearScan == NthOnLeaf /\ NthOnSplits

\* The hashes of the changes in the chunks, in their order.
RECURSIVE Digests(_)
Digests(data) ==
    IF data = <<>> THEN <<>> ELSE data[1].digests \o Digests(Tail(data))

\* C34: save_incremental returns the bytes of the changes of history that the
\* heads recorded by the last save or save_incremental do not reach, and the
\* document then has the current heads recorded; none when nothing new was
\* applied.  So the bytes written since a save, with those of a call made
\* now, have each change of history once.
SaveIncrementalExact ==
    \A d \in Docs :
        LET D == doc[d]
            r == save_incremental(D)
            closure == Closure(D, Range(D.saved))
            unseen(change) == change.hash \notin closure
            fresh == SelectSeq(D.history, unseen)
            written == Digests(disk[d].data \o r.bytes)
        IN /\ r.bytes = [i \in 1..Len(fresh) |-> raw_bytes(fresh[i])]
           /\ r.doc = [D EXCEPT !.saved = get_heads(D)]
           /\ D.saved = get_heads(D) => r.bytes = <<>>
           /\ disk[d].started =>
                 /\ Range(written) = HistHashes(D)
                 /\ \A i, j \in 1..Len(written) : written[i] = written[j] => i = j

\* Two calls of save_incremental have written changes of document 1, and a
\* third, with nothing new, has returned no bytes.
SaveIncrementalWitness ==
    /\ last.op = "save_incremental" /\ last.d = 1 /\ last.ret = <<>>
    /\ Len(disk[1].data) >= 3
    /\ doc[1].saved = get_heads(doc[1])

\* The change a document recorded last.
LastChange(D) == D.history[Len(D.history)]

\* C35: after a local transaction commits a change, the heads of the document
\* are the hash of that change alone, and the deps of the change hold every
\* head the document had when the transaction was opened.
CommitLeavesOneHead ==
    [][\A d \in Docs :
          (last'.op = "set" /\ last'.d = d) =>
             /\ Len(doc'[d].history) = Len(doc[d].history) + 1
             /\ Range(get_heads(doc[d])) \subseteq Range(LastChange(doc'[d]).deps)
             /\ doc'[d].deps = {LastChange(doc'[d]).hash}
             /\ get_heads(doc'[d]) = <<LastChange(doc'[d]).hash>>]_vars

\* A local set has just been committed on a document that had two heads, one
\* of them a change of another actor that was merged in.
CommitLeavesOneHeadWitness ==
    /\ last.op = "set"
    /\ Len(doc[last.d].history) >= 3
    /\ Len(LastChange(doc[last.d]).deps) >= 2
    /\ \E i \in 1..Len(doc[last.d].history) :
          /\ doc[last.d].history[i].hash \in Range(LastChange(doc[last.d]).deps)
          /\ doc[last.d].history[i].actor # LastChange(doc[last.d]).actor
    /\ get_heads(doc[last.d]) = <<LastChange(doc[last.d]).hash>>

====
